---- MODULE Spec2Model ----
(***************************************************************************)
(* A model of cmake/codegen/generate_cxx_ast.py: the entry point (parse    *)
(* step, post-process step), the fragment scan and merge, the tree passes  *)
(* and the string and fingerprint functions they use.                       *)
(*                                                                         *)
(* Python strings are sequences of one-character strings, so that the      *)
(* character loops of the source can be followed.  A JSON value is a        *)
(* record [ty, v]: ty names the Python type ("dict", "list", "str", "int", *)
(* "bool", "null") and v holds the value (a dict is a function from key    *)
(* to value, a list a sequence, a str a character sequence).               *)
(***************************************************************************)
EXTENDS Integers, Sequences, FiniteSets, TLC

VARIABLES
    arg_clang_executable,  \* main: the argument --clang-executable
    arg_root_namespace,    \* main: the argument --root-namespace
    arg_package_name,      \* main: the argument --package-name
    output_file,       \* main: what the output file holds: NoValue (no file), a text
                       \* (JStr), or the document written by the post-process step
    pc,                \* main: where the run is
    returncode,        \* run_clang_ast_dump: the exit status of the parser (NoValue before)
    parse_success,     \* main: the result of run_clang_ast_dump (NoValue before)
    pp_content,           \* post_process_ast_json: the text read (NoValue before)
    pp_idx,               \* post_process_ast_json: the scan index, from 0
    pp_json_objects,      \* post_process_ast_json: the objects decoded so far
    pp_ast_data,          \* post_process_ast_json: the tree (NoValue before the merge)
    passes,            \* post_process_ast_json: the passes that have run, in order
    post_success,      \* main: the result of post_process_ast_json (NoValue before)
    exit_status,       \* main: the exit status of the script (NoValue while it runs)
    log,               \* main: the messages printed so far
    nm_trace,      \* name conversions: the calls made so far, <<[op, v], ...>>
    fl_in,         \* ordering annotator: the value handed to the pass
    fl_out,        \* ordering annotator: the value after the pass (NoValue before)
    ck_in,         \* fingerprints: the runs to come, <<[tree, root_namespace, package_name], ...>>
    ck_out,        \* fingerprints: the document of the run (NoValue before)
    ck_prev,       \* fingerprints: the document of the run before (NoValue at first)
    ps_args,       \* tree passes: the arguments of the run, [tree, source_file,
                   \* source_lines, root_namespace, package_name] (NoValue when idle)
    ps_hist        \* tree passes: the tree before the first pass and after each pass

argVars == <<arg_clang_executable, arg_root_namespace, arg_package_name>>
scanVars == <<pp_content, pp_idx, pp_json_objects>>
mainVars == <<argVars, output_file, pc, returncode, parse_success, scanVars, pp_ast_data,
              passes, post_success, exit_status, log>>
nameVars == <<nm_trace>>
flagVars == <<fl_in, fl_out>>
checksumVars == <<ck_in, ck_out, ck_prev>>
passVars == <<ps_args, ps_hist>>
vars == <<mainVars, nameVars, flagVars, checksumVars, passVars>>

(***************************************************************************)
(* Characters and strings                                                   *)
(***************************************************************************)
UpperChars == <<"A","B","C","D","E","F","G","H","I","J","K","L","M",
                "N","O","P","Q","R","S","T","U","V","W","X","Y","Z">>
LowerChars == <<"a","b","c","d","e","f","g","h","i","j","k","l","m",
                "n","o","p","q","r","s","t","u","v","w","x","y","z">>
DigitChars == <<"0","1","2","3","4","5","6","7","8","9">>

Range(s) == {s[i] : i \in DOMAIN s}

IndexIn(c, s) == CHOOSE i \in DOMAIN s : s[i] = c

\* str.isupper(), str.islower(), str.isdigit() of one character
IsUpper(c) == c \in Range(UpperChars)
IsLower(c) == c \in Range(LowerChars)
IsDigit(c) == c \in Range(DigitChars)

\* str.lower(), str.upper() of one character
LowerCh(c) == IF IsUpper(c) THEN LowerChars[IndexIn(c, UpperChars)] ELSE c
UpperCh(c) == IF IsLower(c) THEN UpperChars[IndexIn(c, LowerChars)] ELSE c

\* str.lower() of a string
Lower(s) == [i \in DOMAIN s |-> LowerCh(s[i])]

RECURSIVE Concat(_)
\* ''.join(parts)
Concat(parts) ==
    IF parts = <<>> THEN <<>> ELSE Head(parts) \o Concat(Tail(parts))

RECURSIVE SplitFrom(_, _, _)
\* s.split(sep) for a one-character sep: cur is the part being read
SplitFrom(s, sep, cur) ==
    IF s = <<>> THEN <<cur>>
    ELSE IF Head(s) = sep THEN <<cur>> \o SplitFrom(Tail(s), sep, <<>>)
    ELSE SplitFrom(Tail(s), sep, Append(cur, Head(s)))

Split(s, sep) == SplitFrom(s, sep, <<>>)

\* str.capitalize(), dropping the lowercasing of the rest
CapitalizeKeepRest(part) ==
    IF part = <<>> THEN <<>>
    ELSE <<UpperCh(part[1])>> \o SubSeq(part, 2, Len(part))

\* str.capitalize(): first character uppercased, the rest lowercased
Capitalize(part) ==
    IF part = <<>> THEN <<>>
    ELSE <<UpperCh(part[1])>> \o Lower(SubSeq(part, 2, Len(part)))

(***************************************************************************)
(* Name-form conversions                                                    *)
(***************************************************************************)
RECURSIVE KebabLoopNoGuard(_, _)
\* the kebab loop with the isupper() test of line 92 dropped
KebabLoopNoGuard(name, result) ==
    IF name = <<>> THEN result
    ELSE LET ch == Head(name) IN
         IF ch = "_" THEN KebabLoopNoGuard(Tail(name), result)
         ELSE IF result # <<>>
         THEN KebabLoopNoGuard(Tail(name), Append(result, "-") \o <<LowerCh(ch)>>)
         ELSE KebabLoopNoGuard(Tail(name), <<LowerCh(ch)>>)

RECURSIVE KebabLoop(_, _)
\* the loop of convert_function_name_to_wit_format over the rest of the name
KebabLoop(name, result) ==
    IF name = <<>> THEN result
    ELSE LET ch == Head(name) IN
         IF ch = "_" THEN KebabLoop(Tail(name), result)
         ELSE KebabLoop(Tail(name),
                  (IF IsUpper(ch) /\ result # <<>>
                      THEN Append(result, "-") ELSE result)
                      \o <<LowerCh(ch)>>)

convert_function_name_to_wit_format_noguard(name) == KebabLoopNoGuard(name, <<>>)

convert_function_name_to_wit_format(name) == KebabLoop(name, <<>>)

convert_wit_to_cxx_function_name(wit_function_name) ==
    LET parts == Split(wit_function_name, "-")
    IN  Concat([i \in DOMAIN parts |-> Capitalize(parts[i])])

(***************************************************************************)
(* JSON values                                                              *)
(***************************************************************************)
JStr(s)   == [ty |-> "str",  v |-> s]
JInt(n)   == [ty |-> "int",  v |-> n]
JBool(b)  == [ty |-> "bool", v |-> b]
JNull     == [ty |-> "null", v |-> 0]
JList(xs) == [ty |-> "list", v |-> xs]
JDict(f)  == [ty |-> "dict", v |-> f]

\* no value: a variable not in use, a result not yet there
NoValue  == [ty |-> "none", v |-> 0]

IsDict(x) == x.ty = "dict"
IsList(x) == x.ty = "list"

\* key in d
Has(d, key) == key \in DOMAIN d.v
\* d[key] = val
Put(d, key, val) == JDict((key :> val) @@ d.v)
\* d.get(key, default)
Get(d, key, default) == IF Has(d, key) THEN d.v[key] ELSE default

\* hashable values: what may be a dict key
IsHashable(x) == x.ty \notin {"dict", "list"}

K_CXXMethodDecl == <<"C","X","X","M","e","t","h","o","d","D","e","c","l">>
K_CXXRecordDecl == <<"C","X","X","R","e","c","o","r","d","D","e","c","l">>
K_ParmVarDecl == <<"P","a","r","m","V","a","r","D","e","c","l">>
K_FieldDecl == <<"F","i","e","l","d","D","e","c","l">>
S_no_kind == <<"_","n","o","_","k","i","n","d">>
S_isImplicitEq == <<"+","i","s","I","m","p","l","i","c","i","t","=">>
S_True == <<"T","r","u","e">>
S_False == <<"F","a","l","s","e">>
S_None == <<"N","o","n","e">>

RECURSIVE DecimalStr(_)
\* str(n) of a natural number
DecimalStr(n) ==
    IF n < 10 THEN <<DigitChars[n + 1]>>
    ELSE Append(DecimalStr(n \div 10), DigitChars[(n % 10) + 1])

\* f"{x}" of a scalar
FormatValue(x) ==
    CASE x.ty = "bool" -> IF x.v THEN S_True ELSE S_False
      [] x.ty = "null" -> S_None
      [] x.ty = "int"  -> DecimalStr(x.v)
      [] x.ty = "str"  -> x.v

SetMin(S) == CHOOSE i \in S : \A j \in S : i <= j
SetMax(S) == CHOOSE i \in S : \A j \in S : j <= i

(***************************************************************************)
(* Ordering annotator: add_last_flags_recursive                             *)
(***************************************************************************)
\* lines 686-693: the key an element is grouped under
GroupKey(item) ==
    LET kind == Get(item, "kind", JStr(S_no_kind))
    IN  IF kind = JStr(K_CXXMethodDecl)
        THEN JStr(K_CXXMethodDecl \o S_isImplicitEq
                 \o FormatValue(Get(item, "isImplicit", JBool(FALSE))))
        ELSE kind

DictIndices(items) == {i \in DOMAIN items : IsDict(items[i])}

\* lines 683-697: kind_groups, each key with the indices it holds
KindGroups(items) ==
    [key \in {GroupKey(items[i]) : i \in DictIndices(items)} |->
        {i \in DictIndices(items) : GroupKey(items[i]) = key}]

\* the marking loop over runs of consecutive elements with one key
MarkFirstLastRuns(items) ==
    [i \in DOMAIN items |->
        IF ~IsDict(items[i]) THEN items[i]
        ELSE LET isFirst == i = 1 \/ ~IsDict(items[i - 1])
                                \/ GroupKey(items[i - 1]) # GroupKey(items[i])
                 isLast == i = Len(items) \/ ~IsDict(items[i + 1])
                               \/ GroupKey(items[i + 1]) # GroupKey(items[i])
                 a == IF isFirst THEN Put(items[i], "first", JBool(TRUE))
                      ELSE items[i]
             IN  IF isLast THEN Put(a, "last", JBool(TRUE)) ELSE a]

\* lines 699-707: first = True on indices[0], last = True on indices[-1]
MarkFirstLast(items) ==
    LET groups == KindGroups(items)
    IN  [i \in DOMAIN items |->
            IF ~IsDict(items[i]) THEN items[i]
            ELSE LET indices == groups[GroupKey(items[i])]
                     a == IF i = SetMin(indices)
                          THEN Put(items[i], "first", JBool(TRUE))
                          ELSE items[i]
                 IN  IF i = SetMax(indices)
                     THEN Put(a, "last", JBool(TRUE))
                     ELSE a]

\* lines 710-715: first = False, last = False where the key is absent
DefaultFlags(items) ==
    [i \in DOMAIN items |->
        IF ~IsDict(items[i]) THEN items[i]
        ELSE LET a == IF Has(items[i], "first") THEN items[i]
                      ELSE Put(items[i], "first", JBool(FALSE))
             IN  IF Has(a, "last") THEN a ELSE Put(a, "last", JBool(FALSE))]

RECURSIVE add_last_flags_recursive(_)
add_last_flags_recursive(data) ==
    IF IsDict(data)
    THEN JDict([key \in DOMAIN data.v |->
            LET value == data.v[key]
            IN  IF IsList(value) /\ Len(value.v) > 0
                THEN LET flagged == DefaultFlags(MarkFirstLast(value.v))
                     IN  JList([i \in DOMAIN flagged |->
                                  add_last_flags_recursive(flagged[i])])
                ELSE add_last_flags_recursive(value)])
    ELSE IF IsList(data)
    THEN JList([i \in DOMAIN data.v |-> add_last_flags_recursive(data.v[i])])
    ELSE data

RECURSIVE FlagsRaises(_)
\* the pass raises TypeError: an element's kind is unhashable (line 695)
FlagsRaises(data) ==
    IF IsDict(data)
    THEN \E key \in DOMAIN data.v :
            LET value == data.v[key]
            IN  IF IsList(value) /\ Len(value.v) > 0
                THEN \/ \E i \in DictIndices(value.v) :
                            ~IsHashable(Get(value.v[i], "kind", JStr(S_no_kind)))
                     \/ \E i \in DOMAIN value.v : FlagsRaises(value.v[i])
                ELSE FlagsRaises(value)
    ELSE IF IsList(data)
    THEN \E i \in DOMAIN data.v : FlagsRaises(data.v[i])
    ELSE FALSE

(***************************************************************************)
(* More string functions, and the namespace translations                    *)
(***************************************************************************)
\* s.startswith(prefix)
StartsWith(s, prefix) ==
    Len(s) >= Len(prefix) /\ SubSeq(s, 1, Len(prefix)) = prefix

RECURSIVE Replace(_, _, _)
\* s.replace(old, new), old not empty: leftmost matches, not overlapping
Replace(s, old, new) ==
    IF Len(s) < Len(old) THEN s
    ELSE IF StartsWith(s, old)
    THEN new \o Replace(SubSeq(s, Len(old) + 1, Len(s)), old, new)
    ELSE <<Head(s)>> \o Replace(Tail(s), old, new)

RECURSIVE SplitStrFrom(_, _, _)
\* s.split(sep), sep not empty: cur is the part being read
SplitStrFrom(s, sep, cur) ==
    IF s = <<>> THEN <<cur>>
    ELSE IF StartsWith(s, sep)
    THEN <<cur>> \o SplitStrFrom(SubSeq(s, Len(sep) + 1, Len(s)), sep, <<>>)
    ELSE SplitStrFrom(Tail(s), sep, Append(cur, Head(s)))

SplitStr(s, sep) == SplitStrFrom(s, sep, <<>>)

\* parts[-1]
LastOf(parts) == parts[Len(parts)]

S_ColonColon == <<":",":">>
S_crate == <<"c","r","a","t","e",":",":">>
S_AppWorld == <<"A","p","p","l","i","c","a","t","i","o","n","W","o","r","l","d",".","w","i","t",".","i","m","p","o","r","t","s",".">>
S_Interop == <<"I","n","t","e","r","o","p">>

convert_wit_to_cxx_namespace(wit_full_name) ==
    Replace(Replace(Replace(wit_full_name, <<":">>, S_ColonColon),
                    <<"/">>, S_ColonColon),
            <<"-">>, <<"_">>)

convert_wit_to_cxx_script_full_interface_name(wit_full_interface_name) ==
    LET result == Replace(Replace(Replace(wit_full_interface_name,
                                          <<":">>, S_ColonColon),
                                  <<"/">>, S_ColonColon),
                          <<"-">>, <<"_">>)
    IN  IF ~StartsWith(result, S_ColonColon) THEN S_ColonColon \o result
        ELSE result

convert_wit_to_csharp_full_interface_name(wit_full_interface_name) ==
    LET parts == SplitStr(wit_full_interface_name, <<"/">>)
    IN  IF Len(parts) # 2 THEN wit_full_interface_name
        ELSE LET namespace_part == Replace(parts[1], <<":">>, <<".">>)
                 interface_name_parts == SplitStr(parts[2], <<"-">>)
                 interface_name ==
                     Concat([i \in DOMAIN interface_name_parts |->
                                Capitalize(interface_name_parts[i])]) \o S_Interop
             IN  S_AppWorld \o namespace_part \o <<".">> \o interface_name

convert_wit_to_rust_full_interface_name(wit_full_interface_name) ==
    LET result == Replace(Replace(Replace(wit_full_interface_name,
                                          <<":">>, S_ColonColon),
                                  <<"/">>, S_ColonColon),
                          <<"-">>, <<"_">>)
    IN  IF ~StartsWith(result, S_crate) THEN S_crate \o result ELSE result

convert_wit_to_rust_function_name(wit_function_name) ==
    Lower(Replace(wit_function_name, <<"-">>, <<"_">>))

convert_package_name_to_cxx_namespace(package_name) ==
    LET result == Replace(package_name, <<":">>, S_ColonColon)
    IN  IF ~StartsWith(result, S_ColonColon) THEN S_ColonColon \o result
        ELSE result

convert_package_name_to_csharp_namespace(package_name) ==
    S_AppWorld \o Replace(package_name, <<":">>, <<".">>)

\* a Rust package form that prefixes without looking
convert_package_name_to_rust_always_prefixed(package_name) ==
    S_crate \o Replace(package_name, <<":">>, S_ColonColon)

convert_package_name_to_rust_namespace(package_name) ==
    LET result == Replace(package_name, <<":">>, S_ColonColon)
    IN  IF ~StartsWith(result, S_crate) THEN S_crate \o result ELSE result

RECURSIVE SnakeLoop(_)
\* re.sub(r'([a-z])([A-Z])', r'\1_\2', s): an underscore between a lowercase
\* letter and the uppercase letter after it
SnakeLoop(s) ==
    IF Len(s) < 2 THEN s
    ELSE IF IsLower(s[1]) /\ IsUpper(s[2])
    THEN <<s[1], "_", s[2]>> \o SnakeLoop(SubSeq(s, 3, Len(s)))
    ELSE <<s[1]>> \o SnakeLoop(Tail(s))

convert_method_name_to_rust_snake_case(method_name) == Lower(SnakeLoop(method_name))

RECURSIVE InterfaceLoopNoSeparatorTest(_, _)
\* the loop without the test result[-1] != '/' of line 329
InterfaceLoopNoSeparatorTest(name, result) ==
    IF name = <<>> THEN result
    ELSE LET ch == Head(name) IN
         IF ch = "_" THEN InterfaceLoopNoSeparatorTest(Tail(name), result)
         ELSE InterfaceLoopNoSeparatorTest(Tail(name),
                  (IF IsUpper(ch) /\ result # <<>>
                      THEN Append(result, <<"-">>) ELSE result)
                      \o <<<<LowerCh(ch)>>>>)

convert_interface_name_dash_first(package_name, interface_name) ==
    Concat(InterfaceLoopNoSeparatorTest(interface_name, <<package_name, <<"/">>>>))

RECURSIVE InterfaceLoop(_, _)
\* the loop of convert_interface_name_to_wit_format: result is a list of
\* strings, package_name and '/' first, then one character each
InterfaceLoop(name, result) ==
    IF name = <<>> THEN result
    ELSE LET ch == Head(name) IN
         IF ch = "_" THEN InterfaceLoop(Tail(name), result)
         ELSE InterfaceLoop(Tail(name),
                  (IF IsUpper(ch) /\ result # <<>> /\ LastOf(result) # <<"/">>
                      THEN Append(result, <<"-">>) ELSE result)
                      \o <<<<LowerCh(ch)>>>>)

convert_interface_name_to_wit_format(package_name, interface_name) ==
    Concat(InterfaceLoop(interface_name, <<package_name, <<"/">>>>))

(***************************************************************************)
(* Fingerprint engine                                                       *)
(***************************************************************************)
\* the characters of the model, in the order of their codes
CharTable ==
    UpperChars \o LowerChars \o DigitChars \o
    <<" ", "\"", "(", ")", ",", ":", "{", "}", "_", "-", "/", ".", "=", "+",
      "[", "]", "*", "&", "<", ">">>

RECURSIVE DigestFrom(_, _)
\* hashlib.sha256(s.encode('utf-8')).digest()[:8] read as an unsigned integer:
\* a deterministic function of the characters of s, here a polynomial digest
\* over a range that fits the model checker's integers
DigestFrom(s, h) ==
    IF s = <<>> THEN h
    ELSE DigestFrom(Tail(s), (h * 131 + IndexIn(Head(s), CharTable)) % 65521)

Digest(s) == DigestFrom(s, 7)

RECURSIVE JoinParams(_, _)
\* lines 352-355: "type:name" of each parameter, ", " between them
JoinParams(parameters, i) ==
    IF i > Len(parameters) THEN <<>>
    ELSE (IF i > 1 THEN <<",", " ">> ELSE <<>>)
         \o FormatValue(parameters[i][1]) \o <<":">> \o FormatValue(parameters[i][2])
         \o JoinParams(parameters, i + 1)

\* line 350-358: the canonical string of a function
FunctionSignature(func_name, parameters) ==
    func_name \o <<"(">> \o JoinParams(parameters, 1) \o <<")">>

calculate_function_checksum(func_name, parameters) ==
    Digest(FunctionSignature(func_name, parameters))

RECURSIVE SortedInsert(_, _)
SortedInsert(sorted, n) ==
    IF sorted = <<>> THEN <<n>>
    ELSE IF n <= Head(sorted) THEN <<n>> \o sorted
    ELSE <<Head(sorted)>> \o SortedInsert(Tail(sorted), n)

RECURSIVE Sorted(_)
\* sorted(xs) of a list of integers
Sorted(xs) ==
    IF xs = <<>> THEN <<>> ELSE SortedInsert(Sorted(Tail(xs)), Head(xs))

RECURSIVE JoinChecksums(_, _)
\* ','.join(str(c) for c in checksums)
JoinChecksums(checksums, i) ==
    IF i > Len(checksums) THEN <<>>
    ELSE (IF i > 1 THEN <<",">> ELSE <<>>) \o DecimalStr(checksums[i])
         \o JoinChecksums(checksums, i + 1)

\* line 380 without the sort of line 377
InterfaceSignatureUnsorted(interface_name, function_checksums) ==
    interface_name \o <<"{">> \o JoinChecksums(function_checksums, 1) \o <<"}">>

\* lines 377-380: the canonical string of an interface
InterfaceSignature(interface_name, function_checksums) ==
    interface_name \o <<"{">> \o JoinChecksums(Sorted(function_checksums), 1) \o <<"}">>

calculate_interface_checksum(interface_name, function_checksums) ==
    Digest(InterfaceSignature(interface_name, function_checksums))

calculate_name_hash(name) == Digest(name)

(***************************************************************************)
(* Context-propagating walker: add_wit_format_names_recursive               *)
(***************************************************************************)
\* bool(x) of a JSON value
Truthy(x) ==
    CASE x.ty = "str"  -> x.v # <<>>
      [] x.ty = "int"  -> x.v # 0
      [] x.ty = "bool" -> x.v
      [] x.ty = "null" -> FALSE
      [] x.ty = "list" -> x.v # <<>>
      [] x.ty = "dict" -> DOMAIN x.v # {}
      [] x.ty = "none" -> FALSE

IsStr(x) == x.ty = "str"

\* node.get("kind") == kind
KindIs(node, kind) == Has(node, "kind") /\ node.v["kind"] = JStr(kind)

RECURSIVE PutAll(_, _)
\* node[key] = value for each <<key, value>> of kvs, in order
PutAll(node, kvs) ==
    IF kvs = <<>> THEN node
    ELSE PutAll(Put(node, Head(kvs)[1], Head(kvs)[2]), Tail(kvs))

\* the context before any interface is entered: the defaults of line 727
NoContext ==
    [parent_interface_qualified_name |-> JNull,
     parent_wit_interface_fullname |-> JNull,
     parent_witgen_cxx_interface_fullname |-> JNull,
     parent_witgen_csharp_interface_fullname |-> JNull,
     parent_witgen_rust_interface_fullname |-> JNull,
     parent_wasm_cxx_interface_fullname |-> JNull,
     parent_wasm_csharp_interface_name |-> JNull,
     parent_wasm_rust_interface_fullname |-> JNull]

\* lines 752-754: the node is an interface the walker names
IsNamedInterface(node, package_name) ==
    /\ KindIs(node, K_CXXRecordDecl)
    /\ package_name # <<>>
    /\ Truthy(Get(node, "name", JNull))

\* lines 755-796: the names of an interface
InterfaceNames(node, package_name, root_namespace) ==
    LET interface_name == node.v["name"].v
        wit_interface_fullname ==
            convert_interface_name_to_wit_format(package_name, interface_name)
        cxx_script_interface_fullname ==
            IF root_namespace # <<>>
            THEN root_namespace \o S_ColonColon \o interface_name
            ELSE convert_wit_to_cxx_script_full_interface_name(wit_interface_fullname)
        rust_interface_fullname ==
            IF root_namespace # <<>>
            THEN S_crate \o Lower(Replace(root_namespace, S_ColonColon, S_ColonColon))
                     \o S_ColonColon \o interface_name
            ELSE convert_wit_to_rust_full_interface_name(wit_interface_fullname)
    IN  [wit_interface_fullname |-> wit_interface_fullname,
         wit_interface_name |-> LastOf(SplitStr(wit_interface_fullname, <<"/">>)),
         witgen_cxx_interface_fullname |->
             convert_wit_to_cxx_script_full_interface_name(wit_interface_fullname),
         wasm_cxx_interface_fullname |-> cxx_script_interface_fullname,
         wasm_cxx_interface_name |->
             LastOf(SplitStr(cxx_script_interface_fullname, S_ColonColon)),
         witgen_csharp_interface_fullname |->
             convert_wit_to_csharp_full_interface_name(wit_interface_fullname),
         wasm_csharp_interface_name |-> interface_name,
         witgen_rust_interface_fullname |->
             convert_wit_to_rust_full_interface_name(wit_interface_fullname),
         wasm_rust_interface_fullname |-> rust_interface_fullname,
         wasm_rust_interface_name |-> interface_name]

\* a qualified name without the leading '::'
FullQualifiedNameUnrooted(root_namespace, interface_name) ==
    root_namespace \o S_ColonColon \o interface_name

\* line 812
FullQualifiedName(root_namespace, interface_name) ==
    S_ColonColon \o root_namespace \o S_ColonColon \o interface_name

\* lines 755-817: the interface node with its attributes
WitInterfaceNode(node, package_name, root_namespace) ==
    LET n == InterfaceNames(node, package_name, root_namespace)
        named == PutAll(node,
            <<<<"wit_interface_fullname", JStr(n.wit_interface_fullname)>>,
              <<"wit_interface_name", JStr(n.wit_interface_name)>>,
              <<"witgen_cxx_interface_fullname", JStr(n.witgen_cxx_interface_fullname)>>,
              <<"wasm_cxx_interface_fullname", JStr(n.wasm_cxx_interface_fullname)>>,
              <<"wasm_cxx_interface_name", JStr(n.wasm_cxx_interface_name)>>,
              <<"witgen_csharp_interface_fullname", JStr(n.witgen_csharp_interface_fullname)>>,
              <<"wasm_csharp_interface_name", JStr(n.wasm_csharp_interface_name)>>,
              <<"witgen_rust_interface_fullname", JStr(n.witgen_rust_interface_fullname)>>,
              <<"wasm_rust_interface_fullname", JStr(n.wasm_rust_interface_fullname)>>,
              <<"wasm_rust_interface_name", JStr(n.wasm_rust_interface_name)>>>>)
        fqn == FullQualifiedName(root_namespace, node.v["name"].v)
    IN  IF root_namespace = <<>> THEN named
        ELSE PutAll(named,
            <<<<"wasm_cxx_namespace_fullname", JStr(root_namespace)>>,
              <<"wasm_dotnet_script_namespace_fullname",
                JStr(Replace(root_namespace, S_ColonColon, <<".">>))>>,
              <<"wasm_rust_namespace_fullname",
                JStr(Lower(Replace(root_namespace, S_ColonColon, <<".">>)))>>,
              <<"full_qualified_name", JStr(fqn)>>,
              <<"interface_name_hash", JInt(calculate_name_hash(fqn))>>,
              <<"interface_id", JInt(calculate_name_hash(fqn))>>>>)

\* lines 818-826: the context passed below an interface
InterfaceContext(node, package_name, root_namespace) ==
    LET n == InterfaceNames(node, package_name, root_namespace)
    IN  [parent_interface_qualified_name |->
             JStr(FullQualifiedName(root_namespace, node.v["name"].v)),
         parent_wit_interface_fullname |-> JStr(n.wit_interface_fullname),
         parent_witgen_cxx_interface_fullname |-> JStr(n.witgen_cxx_interface_fullname),
         parent_witgen_csharp_interface_fullname |->
             JStr(n.witgen_csharp_interface_fullname),
         parent_witgen_rust_interface_fullname |-> JStr(n.witgen_rust_interface_fullname),
         parent_wasm_cxx_interface_fullname |-> JStr(n.wasm_cxx_interface_fullname),
         parent_wasm_csharp_interface_name |-> JStr(node.v["name"].v),
         parent_wasm_rust_interface_fullname |-> JStr(n.wasm_rust_interface_fullname)]

\* the (type, name) pairs read from the ParmVarDecl children of a method
\* (lines 892-900)
MethodParams(node) ==
    IF Has(node, "inner") /\ IsList(node.v["inner"])
    THEN LET inner == node.v["inner"].v
             parm == SelectSeq([i \in DOMAIN inner |-> inner[i]],
                         LAMBDA child : IsDict(child) /\ KindIs(child, K_ParmVarDecl))
         IN  [i \in DOMAIN parm |->
                <<IF Has(parm[i], "type") /\ IsDict(parm[i].v["type"])
                     THEN Get(parm[i].v["type"], "qualType", JStr(<<>>))
                     ELSE JStr(<<>>),
                  Get(parm[i], "name", JStr(<<>>))>>]
    ELSE <<>>

\* the checksum of a method taken over its qualified name
FunctionChecksumQualified(node, ctx) ==
    calculate_function_checksum(
        (IF Truthy(ctx.parent_interface_qualified_name)
            THEN ctx.parent_interface_qualified_name.v \o S_ColonColon ELSE <<>>)
            \o node.v["name"].v,
        MethodParams(node))

\* lines 891-903: the checksum of a method
FunctionChecksum(node, ctx) ==
    calculate_function_checksum(node.v["name"].v, MethodParams(node))

\* s[0].upper() + s[1:] (line 881)
UpperFirst(s) == IF s = <<>> THEN s ELSE <<UpperCh(s[1])>> \o Tail(s)

\* node[key] = prefix + sep + name when the context has prefix (line 839-840 ...)
PutFullname(node, key, prefix, sep, name) ==
    IF Truthy(prefix) THEN Put(node, key, JStr(prefix.v \o sep \o name)) ELSE node

\* lines 829-903: the method node with its attributes
WitMethodNode(node, ctx) ==
    LET func_name == node.v["name"].v
        wit_func_name == convert_function_name_to_wit_format(func_name)
        witgen_cxx_func_name == convert_wit_to_cxx_function_name(wit_func_name)
        witgen_rust_func_name == convert_wit_to_rust_function_name(wit_func_name)
        rust_wrapper_method_name == convert_method_name_to_rust_snake_case(func_name)
        n1 == Put(node, "wit_function_name", JStr(wit_func_name))
        n2 == PutFullname(Put(n1, "witgen_cxx_function_name", JStr(witgen_cxx_func_name)),
                  "witgen_cxx_function_fullname",
                  ctx.parent_witgen_cxx_interface_fullname, S_ColonColon,
                  witgen_cxx_func_name)
        n3 == PutFullname(Put(n2, "witgen_csharp_function_name", JStr(witgen_cxx_func_name)),
                  "witgen_csharp_function_fullname",
                  ctx.parent_witgen_csharp_interface_fullname, <<".">>,
                  witgen_cxx_func_name)
        n4 == PutFullname(Put(n3, "witgen_rust_function_name", JStr(witgen_rust_func_name)),
                  "witgen_rust_function_fullname",
                  ctx.parent_witgen_rust_interface_fullname, S_ColonColon,
                  witgen_rust_func_name)
        n5 == PutFullname(Put(n4, "wasm_cxx_function_name", JStr(func_name)),
                  "wasm_cxx_function_fullname",
                  ctx.parent_wasm_cxx_interface_fullname, S_ColonColon, func_name)
        n6 == PutFullname(Put(n5, "wasm_csharp_function_name", JStr(func_name)),
                  "wasm_csharp_function_fullname",
                  ctx.parent_wasm_csharp_interface_name, <<".">>, func_name)
        n7 == PutFullname(
                  PutAll(n6, <<<<"rust_wrapper_method_name", JStr(rust_wrapper_method_name)>>,
                               <<"wasm_rust_function_name", JStr(rust_wrapper_method_name)>>>>),
                  "wasm_rust_function_fullname",
                  ctx.parent_wasm_rust_interface_fullname, S_ColonColon,
                  rust_wrapper_method_name)
        n8 == IF Truthy(ctx.parent_wit_interface_fullname)
              THEN PutAll(n7,
                     <<<<"wit_interface_fullname", ctx.parent_wit_interface_fullname>>,
                       <<"cxx_namespace",
                         JStr(convert_wit_to_cxx_namespace(ctx.parent_wit_interface_fullname.v))>>,
                       <<"cxx_function_name",
                         JStr(UpperFirst(Replace(wit_func_name, <<"-">>, <<"_">>)))>>>>)
              ELSE n7
        n9 == IF Truthy(ctx.parent_interface_qualified_name)
              THEN LET h == calculate_name_hash(
                                ctx.parent_interface_qualified_name.v
                                    \o S_ColonColon \o func_name)
                   IN  PutAll(n8, <<<<"function_name_hash", JInt(h)>>,
                                    <<"function_id", JInt(h)>>>>)
              ELSE n8
    IN  Put(n9, "function_checksum", JInt(FunctionChecksum(node, ctx)))

\* line 829-831: the node is a method the walker names
IsNamedMethod(node) ==
    KindIs(node, K_CXXMethodDecl) /\ Truthy(Get(node, "name", JNull))

\* a walker in which the outermost interface keeps the context for every
\* node below it
ChildContextOutermost(node, package_name, root_namespace, ctx) ==
    IF ctx = NoContext /\ IsNamedInterface(node, package_name) /\ root_namespace # <<>>
    THEN InterfaceContext(node, package_name, root_namespace)
    ELSE ctx

\* lines 818-826 and 906: the context handed to the values of the node, the
\* one received unless the node is an interface that sets its own
ChildContext(node, package_name, root_namespace, ctx) ==
    IF IsNamedInterface(node, package_name) /\ root_namespace # <<>>
    THEN InterfaceContext(node, package_name, root_namespace)
    ELSE ctx

\* a walker in which the context set by an interface stays in force for the
\* elements that follow it in the same list
ItemContextCarried(items, i, package_name, root_namespace, ctx) ==
    LET earlier == {j \in 1..(i - 1) :
                       /\ IsDict(items[j])
                       /\ IsNamedInterface(items[j], package_name)
                       /\ root_namespace # <<>>}
    IN  IF earlier = {} THEN ctx
        ELSE InterfaceContext(items[SetMax(earlier)], package_name, root_namespace)

\* lines 909-912: every element of a list is walked with the context the
\* list was reached with, whatever the elements before it have set
ItemContext(items, i, package_name, root_namespace, ctx) == ctx

RECURSIVE add_wit_format_names_recursive(_, _, _, _)
add_wit_format_names_recursive(node, package_name, root_namespace, ctx) ==
    IF IsDict(node)
    THEN LET isIface == IsNamedInterface(node, package_name)
             n1 == IF isIface
                   THEN WitInterfaceNode(node, package_name, root_namespace)
                   ELSE IF IsNamedMethod(node) THEN WitMethodNode(node, ctx)
                   ELSE node
             ctx1 == ChildContext(node, package_name, root_namespace, ctx)
         IN  JDict([key \in DOMAIN n1.v |->
                 add_wit_format_names_recursive(n1.v[key], package_name,
                                                root_namespace, ctx1)])
    ELSE IF IsList(node)
    THEN JList([i \in DOMAIN node.v |->
             add_wit_format_names_recursive(node.v[i], package_name, root_namespace,
                 ItemContext(node.v, i, package_name, root_namespace, ctx))])
    ELSE node

RECURSIVE WalkerRaises(_, _)
\* the walker raises: the name of an interface or of a method is not a string
\* (lines 755 and 832: the character loop over a non-string)
WalkerRaises(node, package_name) ==
    IF IsDict(node)
    THEN \/ (IsNamedInterface(node, package_name) \/ IsNamedMethod(node))
                /\ ~IsStr(node.v["name"])
         \/ \E key \in DOMAIN node.v : WalkerRaises(node.v[key], package_name)
    ELSE IF IsList(node)
    THEN \E i \in DOMAIN node.v : WalkerRaises(node.v[i], package_name)
    ELSE FALSE

\* the checksums the pass would read from children the walker has not
\* visited yet
ChildChecksumsUnattached(node) == <<>>

(***************************************************************************)
(* Interface fingerprint pass: add_interface_checksums_recursive            *)
(***************************************************************************)
\* lines 931-937: the checksums of the method children, zero and absent
\* ones left out
ChildChecksums(node) ==
    IF Has(node, "inner") /\ IsList(node.v["inner"])
    THEN LET inner == node.v["inner"].v
             withSum == SelectSeq([i \in DOMAIN inner |-> inner[i]],
                            LAMBDA child : /\ IsDict(child)
                                           /\ KindIs(child, K_CXXMethodDecl)
                                           /\ Truthy(Get(child, "function_checksum", JNull)))
         IN  [i \in DOMAIN withSum |-> withSum[i].v["function_checksum"].v]
    ELSE <<>>

RECURSIVE add_interface_checksums_recursive(_)
add_interface_checksums_recursive(node) ==
    IF IsDict(node)
    THEN LET n1 == IF KindIs(node, K_CXXRecordDecl) /\ Truthy(Get(node, "name", JNull))
                   THEN Put(node, "interface_checksum",
                            JInt(calculate_interface_checksum(FormatValue(node.v["name"]),
                                                              ChildChecksums(node))))
                   ELSE node
         IN  JDict([key \in DOMAIN n1.v |-> add_interface_checksums_recursive(n1.v[key])])
    ELSE IF IsList(node)
    THEN JList([i \in DOMAIN node.v |-> add_interface_checksums_recursive(node.v[i])])
    ELSE node

(***************************************************************************)
(* Primitive-type lookup and the signature extractor                        *)
(***************************************************************************)
TYPE_CONVERSION_TABLE == <<
    [native |-> <<"s","t","d",":",":","i","n","t","8","_","t">>,
     csharp |-> <<"s","b","y","t","e">>, rust |-> <<"i","8">>],
    [native |-> <<"s","t","d",":",":","u","i","n","t","8","_","t">>,
     csharp |-> <<"b","y","t","e">>, rust |-> <<"u","8">>],
    [native |-> <<"s","t","d",":",":","i","n","t","1","6","_","t">>,
     csharp |-> <<"I","n","t","1","6">>, rust |-> <<"i","1","6">>],
    [native |-> <<"s","t","d",":",":","u","i","n","t","1","6","_","t">>,
     csharp |-> <<"U","I","n","t","1","6">>, rust |-> <<"u","1","6">>],
    [native |-> <<"s","t","d",":",":","i","n","t","3","2","_","t">>,
     csharp |-> <<"I","n","t","3","2">>, rust |-> <<"i","3","2">>],
    [native |-> <<"s","t","d",":",":","u","i","n","t","3","2","_","t">>,
     csharp |-> <<"U","I","n","t","3","2">>, rust |-> <<"u","3","2">>],
    [native |-> <<"s","t","d",":",":","i","n","t","6","4","_","t">>,
     csharp |-> <<"I","n","t","6","4">>, rust |-> <<"i","6","4">>],
    [native |-> <<"s","t","d",":",":","u","i","n","t","6","4","_","t">>,
     csharp |-> <<"U","I","n","t","6","4">>, rust |-> <<"u","6","4">>],
    [native |-> <<"i","n","t">>,
     csharp |-> <<"i","n","t">>, rust |-> <<"i","3","2">>],
    [native |-> <<"u","n","s","i","g","n","e","d"," ","i","n","t">>,
     csharp |-> <<"u","i","n","t">>, rust |-> <<"u","3","2">>],
    [native |-> <<"l","o","n","g">>,
     csharp |-> <<"l","o","n","g">>, rust |-> <<"i","6","4">>],
    [native |-> <<"u","n","s","i","g","n","e","d"," ","l","o","n","g">>,
     csharp |-> <<"u","l","o","n","g">>, rust |-> <<"u","6","4">>],
    [native |-> <<"l","o","n","g"," ","l","o","n","g">>,
     csharp |-> <<"l","o","n","g">>, rust |-> <<"i","6","4">>],
    [native |-> <<"u","n","s","i","g","n","e","d"," ","l","o","n","g"," ","l","o","n","g">>,
     csharp |-> <<"u","l","o","n","g">>, rust |-> <<"u","6","4">>],
    [native |-> <<"s","h","o","r","t">>,
     csharp |-> <<"s","h","o","r","t">>, rust |-> <<"i","1","6">>],
    [native |-> <<"u","n","s","i","g","n","e","d"," ","s","h","o","r","t">>,
     csharp |-> <<"u","s","h","o","r","t">>, rust |-> <<"u","1","6">>],
    [native |-> <<"c","h","a","r">>,
     csharp |-> <<"s","b","y","t","e">>, rust |-> <<"i","8">>],
    [native |-> <<"u","n","s","i","g","n","e","d"," ","c","h","a","r">>,
     csharp |-> <<"b","y","t","e">>, rust |-> <<"u","8">>],
    [native |-> <<"f","l","o","a","t">>,
     csharp |-> <<"f","l","o","a","t">>, rust |-> <<"f","3","2">>],
    [native |-> <<"d","o","u","b","l","e">>,
     csharp |-> <<"d","o","u","b","l","e">>, rust |-> <<"f","6","4">>],
    [native |-> <<"b","o","o","l">>,
     csharp |-> <<"b","o","o","l">>, rust |-> <<"b","o","o","l">>],
    [native |-> <<"s","i","z","e","_","t">>,
     csharp |-> <<"u","l","o","n","g">>, rust |-> <<"u","s","i","z","e">>],
    [native |-> <<"s","t","d",":",":","s","i","z","e","_","t">>,
     csharp |-> <<"u","l","o","n","g">>, rust |-> <<"u","s","i","z","e">>],
    [native |-> <<"v","o","i","d">>,
     csharp |-> <<"v","o","i","d">>, rust |-> <<"(",")">>]>>

\* the entries of the table whose key is the spelling
TableRows(spelling) ==
    {i \in DOMAIN TYPE_CONVERSION_TABLE : TYPE_CONVERSION_TABLE[i].native = spelling}

\* a lookup that knows only the spellings of the table
convert_type_known_only(native_type, target_language) ==
    IF IsStr(native_type) /\ TableRows(native_type.v) # {}
    THEN LET row == TYPE_CONVERSION_TABLE[CHOOSE i \in TableRows(native_type.v) : TRUE]
         IN  JStr(IF target_language = "csharp" THEN row.csharp ELSE row.rust)
    ELSE JStr(<<>>)

\* lines 68-70, on a JSON value: a value that is no key of the table comes
\* back unchanged, whatever its type
convert_type_to_target_language(native_type, target_language) ==
    IF IsStr(native_type) /\ TableRows(native_type.v) # {}
    THEN LET row == TYPE_CONVERSION_TABLE[CHOOSE i \in TableRows(native_type.v) : TRUE]
         IN  JStr(IF target_language = "csharp" THEN row.csharp ELSE row.rust)
    ELSE native_type

IsSpace(c) == c \in {" ", "\t", "\n", "\r"}

RECURSIVE StripLeft(_)
StripLeft(s) == IF s # <<>> /\ IsSpace(Head(s)) THEN StripLeft(Tail(s)) ELSE s

RECURSIVE StripRight(_)
StripRight(s) ==
    IF s # <<>> /\ IsSpace(s[Len(s)]) THEN StripRight(SubSeq(s, 1, Len(s) - 1)) ELSE s

\* str.strip()
Strip(s) == StripRight(StripLeft(s))

RECURSIVE FindFrom(_, _, _)
\* s.find(c): the 0-based index of the first c, -1 when there is none
FindFrom(s, c, i) ==
    IF i > Len(s) THEN -1
    ELSE IF s[i] = c THEN i - 1
    ELSE FindFrom(s, c, i + 1)

Find(s, c) == FindFrom(s, c, 1)

\* lines 968-980: the return type fields of a method
WithReturnType(node) ==
    LET type_info == Get(node, "type", JDict(<<>>))
        qual_type == IF IsDict(type_info) THEN Get(type_info, "qualType", JStr(<<>>))
                     ELSE JStr(<<>>)
    IN  IF Truthy(qual_type) /\ Find(qual_type.v, "(") > 0
        THEN LET return_type == JStr(Strip(SubSeq(qual_type.v, 1, Find(qual_type.v, "("))))
             IN  PutAll(node,
                   <<<<"native_return_type", return_type>>,
                     <<"csharp_return_type",
                       convert_type_to_target_language(return_type, "csharp")>>,
                     <<"rust_return_type",
                       convert_type_to_target_language(return_type, "rust")>>,
                     <<"returnType", return_type>>>>)
        ELSE node

\* the ParmVarDecl children the extractor describes (lines 984-989)
DescribedParams(node) ==
    IF Has(node, "inner") /\ IsList(node.v["inner"])
    THEN SelectSeq([i \in DOMAIN node.v["inner"].v |-> node.v["inner"].v[i]],
             LAMBDA child : /\ IsDict(child)
                            /\ KindIs(child, K_ParmVarDecl)
                            /\ IsDict(Get(child, "type", JDict(<<>>))))
    ELSE <<>>

\* lines 987-997: the descriptor of one parameter
ParamDescriptor(child) ==
    LET param_type_info == Get(child, "type", JDict(<<>>))
        native_type == Get(param_type_info, "qualType", JStr(<<>>))
    IN  JDict(("name" :> Get(child, "name", JStr(<<>>)))
           @@ ("native_type" :> native_type)
           @@ ("csharp_type" :> convert_type_to_target_language(native_type, "csharp"))
           @@ ("rust_type" :> convert_type_to_target_language(native_type, "rust"))
           @@ ("desugaredType" :> Get(param_type_info, "desugaredQualType", JStr(<<>>))))

\* an extractor that takes the ParmVarDecl children out of the method
WithSignatureExtracting(node) ==
    LET described == DescribedParams(node)
        n1 == Put(WithReturnType(node), "parameters",
                  JList([i \in DOMAIN described |-> ParamDescriptor(described[i])]))
    IN  IF Has(node, "inner") /\ IsList(node.v["inner"])
        THEN Put(n1, "inner",
                 JList(SelectSeq(node.v["inner"].v,
                           LAMBDA child : ~(IsDict(child) /\ KindIs(child, K_ParmVarDecl)))))
        ELSE n1

\* lines 965-1001: the method node with its signature details
WithSignature(node) ==
    LET described == DescribedParams(node)
    IN  Put(WithReturnType(node), "parameters",
            JList([i \in DOMAIN described |-> ParamDescriptor(described[i])]))

RECURSIVE extract_method_signature_details(_)
extract_method_signature_details(node) ==
    IF IsDict(node)
    THEN LET n1 == IF KindIs(node, K_CXXMethodDecl) THEN WithSignature(node) ELSE node
         IN  JDict([key \in DOMAIN n1.v |-> extract_method_signature_details(n1.v[key])])
    ELSE IF IsList(node)
    THEN JList([i \in DOMAIN node.v |-> extract_method_signature_details(node.v[i])])
    ELSE node

\* the extractor raises on this method: a function type spelling that is
\* not text (line 973), or a parameter type spelling that cannot be looked
\* up in the table (line 68)
SignatureRaisesAt(node) ==
    \/ LET type_info == Get(node, "type", JDict(<<>>))
       IN  /\ IsDict(type_info)
           /\ Truthy(Get(type_info, "qualType", JStr(<<>>)))
           /\ ~IsStr(type_info.v["qualType"])
    \/ \E i \in DOMAIN DescribedParams(node) :
           ~IsHashable(Get(Get(DescribedParams(node)[i], "type", JDict(<<>>)),
                           "qualType", JStr(<<>>)))

RECURSIVE SignatureRaises(_)
SignatureRaises(node) ==
    IF IsDict(node)
    THEN \/ KindIs(node, K_CXXMethodDecl) /\ SignatureRaisesAt(node)
         \/ \E key \in DOMAIN node.v : SignatureRaises(node.v[key])
    ELSE IF IsList(node)
    THEN \E i \in DOMAIN node.v : SignatureRaises(node.v[i])
    ELSE FALSE

(***************************************************************************)
(* Annotation resolver                                                      *)
(***************************************************************************)
K_AnnotateAttr == <<"A","n","n","o","t","a","t","e","A","t","t","r">>
S_METADATA == <<"M","E","T","A","D","A","T","A">>
S_Dot == <<".">>
S_DotDot == <<".",".">>
S_Slash == <<"/">>

RECURSIVE NormComps(_, _, _)
\* the component loop of os.path.normpath (posixpath)
NormComps(comps, new_comps, initial_slashes) ==
    IF comps = <<>> THEN new_comps
    ELSE LET comp == Head(comps)
         IN  IF comp = <<>> \/ comp = S_Dot
             THEN NormComps(Tail(comps), new_comps, initial_slashes)
             ELSE IF \/ comp # S_DotDot
                     \/ (initial_slashes = 0 /\ new_comps = <<>>)
                     \/ (new_comps # <<>> /\ new_comps[Len(new_comps)] = S_DotDot)
             THEN NormComps(Tail(comps), Append(new_comps, comp), initial_slashes)
             ELSE IF new_comps # <<>>
             THEN NormComps(Tail(comps), SubSeq(new_comps, 1, Len(new_comps) - 1),
                            initial_slashes)
             ELSE NormComps(Tail(comps), new_comps, initial_slashes)

RECURSIVE JoinWith(_, _)
\* sep.join(parts)
JoinWith(parts, sep) ==
    IF parts = <<>> THEN <<>>
    ELSE IF Len(parts) = 1 THEN parts[1]
    ELSE parts[1] \o sep \o JoinWith(Tail(parts), sep)

\* os.path.normpath(path) of a POSIX path (lines 653-654)
NormPath(path) ==
    IF path = <<>> THEN S_Dot
    ELSE LET initial_slashes ==
                 IF ~StartsWith(path, S_Slash) THEN 0
                 ELSE IF StartsWith(path, <<"/","/">>) /\ ~StartsWith(path, <<"/","/","/">>)
                 THEN 2 ELSE 1
             joined == JoinWith(NormComps(SplitStr(path, S_Slash), <<>>, initial_slashes),
                                S_Slash)
             result == [i \in 1..initial_slashes |-> "/"] \o joined
         IN  IF result = <<>> THEN S_Dot ELSE result

IsIdentChar(c) == IsUpper(c) \/ IsLower(c) \/ IsDigit(c) \/ c = "_"

RECURSIVE SkipSpace(_, _)
\* the position after the whitespace that starts at position i
SkipSpace(s, i) == IF i <= Len(s) /\ IsSpace(s[i]) THEN SkipSpace(s, i + 1) ELSE i

RECURSIVE SkipIdent(_, _)
SkipIdent(s, i) == IF i <= Len(s) /\ IsIdentChar(s[i]) THEN SkipIdent(s, i + 1) ELSE i

\* the argument matched by METADATA\s*\(\s*([A-Za-z0-9_]+)\s*\) at position p
\* of the line, the empty text when the pattern does not match there
MetadataAt(line_content, p) ==
    LET a == p + Len(S_METADATA)
        b == SkipSpace(line_content, a)
        c == SkipSpace(line_content, b + 1)
        d == SkipIdent(line_content, c)
        e == SkipSpace(line_content, d)
    IN  IF /\ a - 1 <= Len(line_content)
           /\ SubSeq(line_content, p, a - 1) = S_METADATA
           /\ b <= Len(line_content) /\ line_content[b] = "("
           /\ d > c
           /\ e <= Len(line_content) /\ line_content[e] = ")"
        THEN SubSeq(line_content, c, d - 1)
        ELSE <<>>

RECURSIVE SearchMetadataLast(_, _)
\* a search that returns the rightmost match
SearchMetadataLast(line_content, p) ==
    IF p > Len(line_content) THEN <<>>
    ELSE LET later == SearchMetadataLast(line_content, p + 1)
         IN  IF later # <<>> THEN later ELSE MetadataAt(line_content, p)

RECURSIVE SearchMetadata(_, _)
\* re.search of line 610: the leftmost match
SearchMetadata(line_content, p) ==
    IF p > Len(line_content) THEN <<>>
    ELSE IF MetadataAt(line_content, p) # <<>> THEN MetadataAt(line_content, p)
    ELSE SearchMetadata(line_content, p + 1)

\* the number a line value compares as: True is 1
LineNumber(line) == IF line.ty = "bool" THEN (IF line.v THEN 1 ELSE 0) ELSE line.v

\* lines 598-617: source_lines is the list of the lines of the source file,
\* NoValue when the file cannot be read; the result is the text or JNull
extract_annotation_text(source_lines, line) ==
    IF source_lines = NoValue \/ line.ty \notin {"int", "bool"} THEN JNull
    ELSE IF LineNumber(line) < 1 \/ LineNumber(line) > Len(source_lines.v) THEN JNull
    ELSE LET found == SearchMetadata(source_lines.v[LineNumber(line)].v, 1)
         IN  IF found = <<>> THEN JNull ELSE JStr(found)

\* a resolver that falls back to the direct location whenever the expansion
\* location lacks a line, a column or a file
ResolvedLocUsable(node) ==
    LET range_begin == Get(Get(node, "range", JDict(<<>>)), "begin", JDict(<<>>))
        expansion_loc == Get(range_begin, "expansionLoc", JDict(<<>>))
    IN  IF /\ Truthy(Get(expansion_loc, "line", JNull))
           /\ Truthy(Get(expansion_loc, "col", JNull))
           /\ Truthy(Get(expansion_loc, "file", JNull))
        THEN expansion_loc
        ELSE range_begin

\* lines 634-647: the location the node resolves to
ResolvedLoc(node) ==
    LET range_begin == Get(Get(node, "range", JDict(<<>>)), "begin", JDict(<<>>))
        expansion_loc == Get(range_begin, "expansionLoc", JDict(<<>>))
    IN  IF Truthy(expansion_loc) THEN expansion_loc ELSE range_begin

\* the resolver without the comparison of the file with the header
WithAnnotationAnyFile(node, source_file, source_lines) ==
    LET loc == ResolvedLoc(node)
        line == Get(loc, "line", JNull)
    IN  IF /\ Truthy(line) /\ Truthy(Get(loc, "col", JNull))
           /\ Truthy(Get(loc, "file", JNull))
           /\ Truthy(extract_annotation_text(source_lines, line))
        THEN Put(node, "annotation", extract_annotation_text(source_lines, line))
        ELSE node

\* lines 632-659: the AnnotateAttr node with its annotation
WithAnnotation(node, source_file, source_lines) ==
    LET loc == ResolvedLoc(node)
        line == Get(loc, "line", JNull)
        col == Get(loc, "col", JNull)
        file_path == Get(loc, "file", JNull)
    IN  IF /\ Truthy(line) /\ Truthy(col) /\ Truthy(file_path)
           /\ NormPath(file_path.v) = NormPath(source_file)
           /\ Truthy(extract_annotation_text(source_lines, line))
        THEN Put(node, "annotation", extract_annotation_text(source_lines, line))
        ELSE node

RECURSIVE add_annotation_strings_recursive(_, _, _)
add_annotation_strings_recursive(node, source_file, source_lines) ==
    IF ~IsDict(node) THEN node
    ELSE LET n1 == IF KindIs(node, K_AnnotateAttr)
                   THEN WithAnnotation(node, source_file, source_lines)
                   ELSE node
         IN  IF Has(n1, "inner") /\ IsList(n1.v["inner"])
             THEN Put(n1, "inner",
                      JList([i \in DOMAIN n1.v["inner"].v |->
                          add_annotation_strings_recursive(n1.v["inner"].v[i],
                                                           source_file, source_lines)]))
             ELSE n1

\* the resolver raises on this AnnotateAttr node: a range, begin or
\* expansionLoc that is not a record (lines 634-647), or a file that is not
\* text (line 653)
AnnotationRaisesAt(node) ==
    LET range == Get(node, "range", JDict(<<>>))
        range_begin == Get(range, "begin", JDict(<<>>))
        expansion_loc == Get(range_begin, "expansionLoc", JDict(<<>>))
        loc == IF Truthy(expansion_loc) THEN expansion_loc ELSE range_begin
    IN  \/ ~IsDict(range)
        \/ IsDict(range) /\ ~IsDict(range_begin)
        \/ IsDict(range) /\ IsDict(range_begin)
              /\ Truthy(expansion_loc) /\ ~IsDict(expansion_loc)
        \/ IsDict(range) /\ IsDict(range_begin) /\ IsDict(loc)
              /\ Truthy(Get(loc, "line", JNull)) /\ Truthy(Get(loc, "col", JNull))
              /\ Truthy(Get(loc, "file", JNull)) /\ ~IsStr(Get(loc, "file", JNull))

RECURSIVE AnnotationRaises(_)
AnnotationRaises(node) ==
    /\ IsDict(node)
    /\ \/ KindIs(node, K_AnnotateAttr) /\ AnnotationRaisesAt(node)
       \/ /\ Has(node, "inner") /\ IsList(node.v["inner"])
          /\ \E i \in DOMAIN node.v["inner"].v : AnnotationRaises(node.v["inner"].v[i])

(***************************************************************************)
(* json.JSONDecoder.raw_decode on the characters of a text                  *)
(***************************************************************************)
\* the result of a failed decode (json.JSONDecodeError)
DecodeError == [ok |-> FALSE, val |-> NoValue, next |-> 0]

Decoded(val, next) == [ok |-> TRUE, val |-> val, next |-> next]

RECURSIVE KeyOf(_)
\* the text of a key as the name of a record field
KeyOf(s) == IF s = <<>> THEN "" ELSE Head(s) \o KeyOf(Tail(s))

RECURSIVE CloseQuote(_, _)
\* the position of the quote that closes a string whose characters start at
\* position p; 0 when the string is not terminated or holds a control
\* character
CloseQuote(s, p) ==
    IF p > Len(s) THEN 0
    ELSE IF s[p] = "\"" THEN p
    ELSE IF s[p] \in {"\n", "\t", "\r"} THEN 0
    ELSE CloseQuote(s, p + 1)

\* a string, p at its opening quote
DecodeString(s, p) ==
    LET q == CloseQuote(s, p + 1)
    IN  IF q = 0 THEN DecodeError ELSE Decoded(JStr(SubSeq(s, p + 1, q - 1)), q + 1)

RECURSIVE SkipDigits(_, _)
SkipDigits(s, i) == IF i <= Len(s) /\ IsDigit(s[i]) THEN SkipDigits(s, i + 1) ELSE i

RECURSIVE DecimalValue(_, _)
\* int(digits)
DecimalValue(digits, acc) ==
    IF digits = <<>> THEN acc
    ELSE DecimalValue(Tail(digits), acc * 10 + (IndexIn(Head(digits), DigitChars) - 1))

\* an integer: -?(0|[1-9][0-9]*)
DecodeNumber(s, p) ==
    LET d == IF s[p] = "-" THEN p + 1 ELSE p
        e == IF d <= Len(s) /\ s[d] = "0" THEN d + 1 ELSE SkipDigits(s, d)
    IN  IF e = d THEN DecodeError
        ELSE Decoded(JInt((IF d > p THEN -1 ELSE 1) * DecimalValue(SubSeq(s, d, e - 1), 0)), e)

S_true == <<"t","r","u","e">>
S_false == <<"f","a","l","s","e">>
S_null == <<"n","u","l","l">>

\* the text has the word at position p
HasAt(s, p, word) ==
    p + Len(word) - 1 <= Len(s) /\ SubSeq(s, p, p + Len(word) - 1) = word

RECURSIVE DecodeValue(_, _), DecodeMembers(_, _, _), DecodeElements(_, _, _)
\* scan_once: the value that starts exactly at position p
DecodeValue(s, p) ==
    IF p > Len(s) THEN DecodeError
    ELSE IF s[p] = "\"" THEN DecodeString(s, p)
    ELSE IF s[p] = "{"
    THEN LET q == SkipSpace(s, p + 1)
         IN  IF q <= Len(s) /\ s[q] = "}" THEN Decoded(JDict(<<>>), q + 1)
             ELSE DecodeMembers(s, q, <<>>)
    ELSE IF s[p] = "["
    THEN LET q == SkipSpace(s, p + 1)
         IN  IF q <= Len(s) /\ s[q] = "]" THEN Decoded(JList(<<>>), q + 1)
             ELSE DecodeElements(s, q, <<>>)
    ELSE IF HasAt(s, p, S_true) THEN Decoded(JBool(TRUE), p + 4)
    ELSE IF HasAt(s, p, S_false) THEN Decoded(JBool(FALSE), p + 5)
    ELSE IF HasAt(s, p, S_null) THEN Decoded(JNull, p + 4)
    ELSE IF IsDigit(s[p]) \/ s[p] = "-" THEN DecodeNumber(s, p)
    ELSE DecodeError

\* the members of an object from position q on; a repeated key keeps its
\* last value
DecodeMembers(s, q, members) ==
    IF q > Len(s) \/ s[q] # "\"" THEN DecodeError
    ELSE LET key == DecodeString(s, q)
             colon == SkipSpace(s, key.next)
             value == DecodeValue(s, SkipSpace(s, colon + 1))
             after == SkipSpace(s, value.next)
             now == (KeyOf(key.val.v) :> value.val) @@ members
         IN  IF ~key.ok \/ colon > Len(s) \/ s[colon] # ":" THEN DecodeError
             ELSE IF ~value.ok \/ after > Len(s) THEN DecodeError
             ELSE IF s[after] = "}" THEN Decoded(JDict(now), after + 1)
             ELSE IF s[after] = ","
             THEN DecodeMembers(s, SkipSpace(s, after + 1), now)
             ELSE DecodeError

\* the elements of an array from position q on
DecodeElements(s, q, elements) ==
    LET value == DecodeValue(s, q)
        after == SkipSpace(s, value.next)
    IN  IF ~value.ok \/ after > Len(s) THEN DecodeError
        ELSE IF s[after] = "]" THEN Decoded(JList(Append(elements, value.val)), after + 1)
        ELSE IF s[after] = ","
        THEN DecodeElements(s, SkipSpace(s, after + 1), Append(elements, value.val))
        ELSE DecodeError

\* decoder.raw_decode(content, idx): idx counts characters from 0, and the
\* end index returned counts from the start of the text
raw_decode(content, idx) ==
    LET r == DecodeValue(content, idx + 1)
    IN  [ok |-> r.ok, obj |-> r.val, end_idx |-> r.next - 1]

(***************************************************************************)
(* post_process_ast_json: fragment scan, merge, passes, assembly            *)
(***************************************************************************)
S_inner == <<"i","n","n","e","r">>

\* line 1054 taken as "skip the character and go on"
ScanOnceSkipping(content, idx, json_objects) ==
    LET at == SkipSpace(content, idx + 1) - 1
        r == raw_decode(content, at)
    IN  IF idx >= Len(content)
        THEN [idx |-> idx, json_objects |-> json_objects, more |-> FALSE]
        ELSE IF at >= Len(content)
        THEN [idx |-> at, json_objects |-> json_objects, more |-> FALSE]
        ELSE IF ~r.ok
        THEN [idx |-> at + 1, json_objects |-> json_objects, more |-> TRUE]
        ELSE [idx |-> at + r.end_idx, json_objects |-> Append(json_objects, r.obj),
              more |-> TRUE]

\* one pass of the loop of lines 1042-1054 from index idx (counted from 0)
\* with the objects decoded so far: the index and the objects after it, and
\* whether the loop goes on
ScanOnce(content, idx, json_objects) ==
    LET at == SkipSpace(content, idx + 1) - 1
        r == raw_decode(content, at)
    IN  IF idx >= Len(content)
        THEN [idx |-> idx, json_objects |-> json_objects, more |-> FALSE]
        ELSE IF at >= Len(content) \/ ~r.ok
        THEN [idx |-> at, json_objects |-> json_objects, more |-> FALSE]
        ELSE [idx |-> at + r.end_idx, json_objects |-> Append(json_objects, r.obj),
              more |-> TRUE]

RECURSIVE ScanAll(_, _, _)
\* the whole loop
ScanAll(content, idx, json_objects) ==
    LET s == ScanOnce(content, idx, json_objects)
    IN  IF s.more THEN ScanAll(content, s.idx, s.json_objects) ELSE s.json_objects

RECURSIVE Contains(_, _)
\* sub in s, for texts
Contains(s, sub) ==
    IF Len(s) < Len(sub) THEN FALSE
    ELSE StartsWith(s, sub) \/ Contains(Tail(s), sub)

\* "inner" in obj raises: obj is a number, a boolean or None
InnerInRaises(obj) == obj.ty \in {"int", "bool", "null"}

\* "inner" in obj
InnerIn(obj) ==
    CASE obj.ty = "dict" -> Has(obj, "inner")
      [] obj.ty = "list" -> \E i \in DOMAIN obj.v : obj.v[i] = JStr(S_inner)
      [] obj.ty = "str"  -> Contains(obj.v, S_inner)

\* obj contributes children: the test of line 1067 holds
HasInnerList(obj) == IsDict(obj) /\ Has(obj, "inner") /\ IsList(obj.v["inner"])

\* lines 1061-1068 raise on these objects
MergeRaises(json_objects) ==
    LET first == json_objects[1]
        rest == {k \in DOMAIN json_objects : k > 1}
    IN  /\ Len(json_objects) > 1
        /\ \/ InnerInRaises(first)
           \/ ~InnerInRaises(first) /\ ~InnerIn(first) /\ ~IsDict(first)
           \/ \E k \in rest : InnerInRaises(json_objects[k])
           \/ \E k \in rest : /\ ~InnerInRaises(json_objects[k])
                              /\ InnerIn(json_objects[k])
                              /\ ~IsDict(json_objects[k])
           \/ \E k \in rest : /\ HasInnerList(json_objects[k])
                              /\ \/ ~IsDict(first)
                                 \/ Has(first, "inner") /\ ~IsList(first.v["inner"])

RECURSIVE ExtendAll(_, _, _)
\* inner.extend(obj["inner"]) for the objects from the k-th on
ExtendAll(inner, json_objects, k) ==
    IF k > Len(json_objects) THEN inner
    ELSE ExtendAll(IF HasInnerList(json_objects[k])
                      THEN inner \o json_objects[k].v["inner"].v ELSE inner,
                   json_objects, k + 1)

\* lines 1060-1068: the merged tree
MergeObjects(json_objects) ==
    LET first == json_objects[1]
        base == IF InnerIn(first) THEN first ELSE Put(first, "inner", JList(<<>>))
    IN  IF Len(json_objects) = 1 THEN first
        ELSE IF \A k \in DOMAIN json_objects : k > 1 => ~HasInnerList(json_objects[k])
        THEN base
        ELSE Put(base, "inner", JList(ExtendAll(base.v["inner"].v, json_objects, 2)))

\* the names of the passes in the order of lines 1071-1083
PassOrder == <<"annotation", "wit", "signature", "flags", "checksums">>

\* the pass raises on the tree
PassRaises(pass, ast_data, package_name) ==
    CASE pass = "annotation" -> AnnotationRaises(ast_data)
      [] pass = "wit"        -> WalkerRaises(ast_data, package_name)
      [] pass = "signature"  -> SignatureRaises(ast_data)
      [] pass = "flags"      -> FlagsRaises(ast_data)
      [] pass = "checksums"  -> FALSE

\* the tree after the pass
RunPass(pass, ast_data, source_file, source_lines, package_name, root_namespace) ==
    CASE pass = "annotation" ->
             add_annotation_strings_recursive(ast_data, source_file, source_lines)
      [] pass = "wit"        ->
             add_wit_format_names_recursive(ast_data, package_name, root_namespace,
                                            NoContext)
      [] pass = "signature"  -> extract_method_signature_details(ast_data)
      [] pass = "flags"      -> add_last_flags_recursive(ast_data)
      [] pass = "checksums"  -> add_interface_checksums_recursive(ast_data)

\* lines 1087-1095: the fields derived from the root namespace
RootNamespaceFields(root_namespace) ==
    IF root_namespace = <<>> THEN <<>>
    ELSE ("root_namespace" :> JStr(root_namespace))
      @@ ("root_namespace_dotnet" :> JStr(Replace(root_namespace, S_ColonColon, <<".">>)))
      @@ ("root_namespace_rust" :>
             JStr(Lower(Replace(root_namespace, S_ColonColon, <<".">>))))
      @@ ("root_namespace_last" :> JStr(LastOf(SplitStr(root_namespace, S_ColonColon))))
      @@ ("root_namespace_dotnet_last" :>
             JStr(LastOf(SplitStr(root_namespace, S_ColonColon))))
      @@ ("root_namespace_rust_last" :>
             JStr(Lower(LastOf(SplitStr(root_namespace, S_ColonColon)))))

\* lines 1096-1103: the fields derived from the package name
PackageFields(package_name) ==
    IF package_name = <<>> THEN <<>>
    ELSE ("package_name" :> JStr(package_name))
      @@ ("wit_package_name" :> JStr(package_name))
      @@ ("witgen_cxx_namespace_fullname" :>
             JStr(convert_package_name_to_cxx_namespace(package_name)))
      @@ ("witgen_dotnet_namespace_fullname" :>
             JStr(convert_package_name_to_csharp_namespace(package_name)))
      @@ ("witgen_rust_namespace_fullname" :>
             JStr(convert_package_name_to_rust_namespace(package_name)))

\* line 1104 raises: update() of a value that is not a record (an empty list
\* or an empty text updates nothing)
AssembleRaises(ast_data) ==
    ~IsDict(ast_data) /\ ~(ast_data.ty \in {"list", "str"} /\ ast_data.v = <<>>)

\* lines 1086-1105: the document; a field of the tree replaces a metadata
\* field of the same name
AssembleDocument(ast_data, root_namespace, package_name) ==
    JDict((IF IsDict(ast_data) THEN ast_data.v ELSE <<>>)
          @@ PackageFields(package_name) @@ RootNamespaceFields(root_namespace))

\* lines 1088-1095: the fields set from the root namespace, in the order set
RootNamespaceKeys(root_namespace) ==
    IF root_namespace = <<>> THEN <<>>
    ELSE <<"root_namespace", "root_namespace_dotnet", "root_namespace_rust",
           "root_namespace_last", "root_namespace_dotnet_last",
           "root_namespace_rust_last">>

\* lines 1097-1103: the fields set from the package name, in the order set
PackageKeys(package_name) ==
    IF package_name = <<>> THEN <<>>
    ELSE <<"package_name", "wit_package_name", "witgen_cxx_namespace_fullname",
           "witgen_dotnet_namespace_fullname", "witgen_rust_namespace_fullname">>

\* a document whose fields start with those of the tree
DocumentKeysTreeFirst(ast_keys, root_namespace, package_name) ==
    ast_keys \o SelectSeq(RootNamespaceKeys(root_namespace) \o PackageKeys(package_name),
                          LAMBDA key : key \notin Range(ast_keys))

\* lines 1086-1105: the order of the fields of the document, ast_keys being
\* the fields of the tree in their order; update() appends the fields that
\* are new and leaves in place a field that is already there
DocumentKeys(ast_keys, root_namespace, package_name) ==
    LET ordered_keys == RootNamespaceKeys(root_namespace) \o PackageKeys(package_name)
    IN  ordered_keys \o SelectSeq(ast_keys, LAMBDA key : key \notin Range(ordered_keys))

RECURSIVE RunPasses(_, _, _, _, _, _)
\* lines 1071-1083 from the k-th pass on: the tree after the passes, NoValue
\* when one of them raises
RunPasses(k, ast_data, source_file, source_lines, package_name, root_namespace) ==
    IF k > Len(PassOrder) THEN ast_data
    ELSE IF PassRaises(PassOrder[k], ast_data, package_name) THEN NoValue
    ELSE RunPasses(k + 1,
                   RunPass(PassOrder[k], ast_data, source_file, source_lines,
                           package_name, root_namespace),
                   source_file, source_lines, package_name, root_namespace)

(***************************************************************************)
(* Name conversions as a state machine: a name is drawn, and the two        *)
(* conversions are called on the latest value in any order.                 *)
(***************************************************************************)
MaxNameLen == 3
MaxNameCalls == 3

NameChars == {"D", "o", "S", "x", "1", "_", "-"}

RECURSIVE StringsUpTo(_, _)
\* the strings over chars of length at most n
StringsUpTo(chars, n) ==
    IF n = 0 THEN {<<>>}
    ELSE LET shorter == StringsUpTo(chars, n - 1)
         IN  shorter \cup {Append(s, c) : s \in shorter, c \in chars}

NameInputs == StringsUpTo(NameChars, MaxNameLen)

\* package names, also ending with the separator
NamePackages ==
    { <<"a", ":", "s">>, <<"p", "/">>, <<"/">>, <<":", ":", "a">>,
      <<"c", "r", "a", "t", "e", ":">>, S_AppWorld \o <<"a">> }

NamesInit ==
    /\ \E x \in NameInputs : nm_trace = <<[op |-> "input", v |-> x]>>
    /\ fl_in = NoValue
    /\ fl_out = NoValue
    /\ ck_in = <<>>
    /\ ck_out = NoValue
    /\ ck_prev = NoValue
    /\ ps_args = NoValue
    /\ ps_hist = <<>>
    /\ arg_clang_executable = NoValue
    /\ arg_root_namespace = NoValue
    /\ arg_package_name = NoValue
    /\ output_file = NoValue
    /\ pc = "idle"
    /\ returncode = NoValue
    /\ parse_success = NoValue
    /\ pp_content = NoValue
    /\ pp_idx = 0
    /\ pp_json_objects = <<>>
    /\ pp_ast_data = NoValue
    /\ passes = <<>>
    /\ post_success = NoValue
    /\ exit_status = NoValue
    /\ log = <<>>

CallKebab ==
    /\ nm_trace # <<>>
    /\ Len(nm_trace) <= MaxNameCalls
    /\ nm_trace' = Append(nm_trace,
           [op |-> "kebab",
            v |-> convert_function_name_to_wit_format(nm_trace[Len(nm_trace)].v)])
    /\ UNCHANGED <<mainVars, flagVars, checksumVars, passVars>>

CallPascal ==
    /\ nm_trace # <<>>
    /\ Len(nm_trace) <= MaxNameCalls
    /\ nm_trace' = Append(nm_trace,
           [op |-> "pascal",
            v |-> convert_wit_to_cxx_function_name(nm_trace[Len(nm_trace)].v)])
    /\ UNCHANGED <<mainVars, flagVars, checksumVars, passVars>>

\* line 755: the walker calls the interface-path routine on the name the
\* parser gives, with the package name of the run
CallInterfacePath ==
    /\ Len(nm_trace) = 1
    /\ \E package_name \in NamePackages :
           nm_trace' = Append(nm_trace,
               [op |-> "interface",
                v |-> convert_interface_name_to_wit_format(package_name, nm_trace[1].v),
                package_name |-> package_name])
    /\ UNCHANGED <<mainVars, flagVars, checksumVars, passVars>>

\* lines 762, 777, 783: the walker translates the interface path for each
\* target; lines 1101-1103: the assembly translates the package name
CallNamespaceForms ==
    /\ Len(nm_trace) = 2
    /\ nm_trace[2].op = "interface"
    /\ LET wit_interface_fullname == nm_trace[2].v
           package_name == nm_trace[2].package_name
       IN  nm_trace' = Append(nm_trace,
               [op |-> "namespaces",
                v |-> wit_interface_fullname,
                package_name |-> package_name,
                witgen_cxx_interface_fullname |->
                    convert_wit_to_cxx_script_full_interface_name(wit_interface_fullname),
                witgen_csharp_interface_fullname |->
                    convert_wit_to_csharp_full_interface_name(wit_interface_fullname),
                witgen_rust_interface_fullname |->
                    convert_wit_to_rust_full_interface_name(wit_interface_fullname),
                witgen_cxx_namespace_fullname |->
                    convert_package_name_to_cxx_namespace(package_name),
                witgen_dotnet_namespace_fullname |->
                    convert_package_name_to_csharp_namespace(package_name),
                witgen_rust_namespace_fullname |->
                    convert_package_name_to_rust_namespace(package_name)])
    /\ UNCHANGED <<mainVars, flagVars, checksumVars, passVars>>

NamesNext == CallKebab \/ CallPascal \/ CallInterfacePath \/ CallNamespaceForms

SpecNames == NamesInit /\ [][NamesNext]_vars


\* a valid PascalCase identifier: an uppercase letter, then letters and digits
IsPascalCase(x) ==
    /\ x # <<>>
    /\ IsUpper(x[1])
    /\ \A i \in DOMAIN x : IsUpper(x[i]) \/ IsLower(x[i]) \/ IsDigit(x[i])

\* the trace is input x, pascal, kebab, pascal
IsPascalKebabPascal ==
    /\ Len(nm_trace) = 4
    /\ nm_trace[2].op = "pascal"
    /\ nm_trace[3].op = "kebab"
    /\ nm_trace[4].op = "pascal"

\* C9: for a valid PascalCase identifier x, pascal(kebab(pascal(x))) = pascal(x),
\* with pascal = convert_wit_to_cxx_function_name and
\* kebab = convert_function_name_to_wit_format.
C9_PascalKebabPascal ==
    (IsPascalKebabPascal /\ IsPascalCase(nm_trace[1].v))
        => nm_trace[4].v = nm_trace[2].v

\* a PascalCase name of two words has gone through pascal, kebab, pascal
C9_Witness ==
    /\ IsPascalKebabPascal
    /\ IsPascalCase(nm_trace[1].v)
    /\ \E i \in 2..Len(nm_trace[1].v) : IsUpper(nm_trace[1].v[i])

\* the calls of the interface-path routine made so far
InterfaceCalls == {i \in DOMAIN nm_trace : nm_trace[i].op = "interface"}

\* C19: for every non-empty package name and interface name,
\* convert_interface_name_to_wit_format(package, name) is package, '/' and
\* convert_function_name_to_wit_format(name): the two routines agree, also
\* on names that start with underscores or an uppercase letter and on
\* package names that end with '/'.
C19_InterfacePathIsPackageSlashKebab ==
    \A i \in InterfaceCalls :
        (nm_trace[i].package_name # <<>> /\ nm_trace[1].v # <<>>) =>
            nm_trace[i].v = nm_trace[i].package_name \o <<"/">>
                                \o convert_function_name_to_wit_format(nm_trace[1].v)

\* the routine has been called with a package name that ends with '/' on a
\* name that starts with an underscore and goes on with two uppercase letters
C19_Witness ==
    \E i \in InterfaceCalls :
        /\ nm_trace[i].package_name = <<"p", "/">>
        /\ Len(nm_trace[1].v) = 3
        /\ nm_trace[1].v[1] = "_"
        /\ IsUpper(nm_trace[1].v[2]) /\ IsUpper(nm_trace[1].v[3])

NamespaceCalls == {i \in DOMAIN nm_trace : nm_trace[i].op = "namespaces"}

\* s starts with the root token exactly once
StartsOnceWith(s, token) ==
    StartsWith(s, token) /\ ~StartsWith(s, token \o token)

\* the number of '/' in a path
SlashCount(path) == Cardinality({i \in DOMAIN path : path[i] = "/"})

\* a path or package name with ':' and '/' turned into '::' and '-' into '_'
ColonForm(s) ==
    Replace(Replace(Replace(s, <<":">>, S_ColonColon), <<"/">>, S_ColonColon),
            <<"-">>, <<"_">>)

\* result is the translated string with the token in front exactly when the
\* translated string does not start with it
PrefixedWhenAbsent(result, translated, token) ==
    /\ StartsWith(result, token)
    /\ result = IF StartsWith(translated, token) THEN translated
                ELSE token \o translated

\* C21 (as stated): every namespace translation (the C++, Rust and C# forms
\* of a package name and of a WIT path) starts with the target's root token
\* exactly once, never twice, for every input.
C21_RootTokenExactlyOnce ==
    \A i \in NamespaceCalls :
        /\ StartsOnceWith(nm_trace[i].witgen_cxx_interface_fullname, S_ColonColon)
        /\ StartsOnceWith(nm_trace[i].witgen_cxx_namespace_fullname, S_ColonColon)
        /\ StartsOnceWith(nm_trace[i].witgen_rust_interface_fullname, S_crate)
        /\ StartsOnceWith(nm_trace[i].witgen_rust_namespace_fullname, S_crate)
        /\ StartsOnceWith(nm_trace[i].witgen_csharp_interface_fullname, S_AppWorld)
        /\ StartsOnceWith(nm_trace[i].witgen_dotnet_namespace_fullname, S_AppWorld)

\* C21 (amended): the C++ and Rust forms put the root token in front exactly
\* when the translated string does not already start with it, so they always
\* start with the token and the prefixing never doubles it; the C# package
\* form always puts the dotted prefix in front, also when the package name
\* already starts with it; the C# form of a WIT path puts the prefix in front
\* when the path has exactly one '/' and returns the path unchanged otherwise.
C21_RootTokenPerTarget ==
    \A i \in NamespaceCalls :
        LET path == nm_trace[i].v
            package_name == nm_trace[i].package_name
        IN  /\ PrefixedWhenAbsent(nm_trace[i].witgen_cxx_interface_fullname,
                                  ColonForm(path), S_ColonColon)
            /\ PrefixedWhenAbsent(nm_trace[i].witgen_rust_interface_fullname,
                                  ColonForm(path), S_crate)
            /\ PrefixedWhenAbsent(nm_trace[i].witgen_cxx_namespace_fullname,
                                  Replace(package_name, <<":">>, S_ColonColon),
                                  S_ColonColon)
            /\ PrefixedWhenAbsent(nm_trace[i].witgen_rust_namespace_fullname,
                                  Replace(package_name, <<":">>, S_ColonColon),
                                  S_crate)
            /\ nm_trace[i].witgen_dotnet_namespace_fullname
                   = S_AppWorld \o Replace(package_name, <<":">>, <<".">>)
            /\ IF SlashCount(path) = 1
               THEN /\ StartsWith(nm_trace[i].witgen_csharp_interface_fullname,
                                  S_AppWorld)
                    /\ StartsWith(path, S_AppWorld)
                           <=> StartsWith(nm_trace[i].witgen_csharp_interface_fullname,
                                          S_AppWorld \o S_AppWorld)
               ELSE nm_trace[i].witgen_csharp_interface_fullname = path

\* the translations have run on a package that already starts with the Rust
\* root token, and on one that already starts with the C# prefix
C21_Witness ==
    /\ \E i \in NamespaceCalls :
           /\ StartsWith(nm_trace[i].package_name, <<"c", "r", "a", "t", "e", ":">>)
           /\ StartsOnceWith(nm_trace[i].witgen_rust_namespace_fullname, S_crate)

(***************************************************************************)
(* The ordering annotator as a state machine: a node with one list-valued   *)
(* attribute is drawn and the pass is run on it.                            *)
(***************************************************************************)
MaxFlagLen == 4

\* a method with two parameters, as the signature extractor leaves it
FlagParams ==
    JList(<<JDict([kind |-> JStr(K_ParmVarDecl)]), JDict([kind |-> JStr(K_ParmVarDecl)])>>)

\* the elements: as the parser dumps them, no first or last attribute yet
FlagElems ==
    { JDict([kind |-> JStr(K_CXXMethodDecl)]),
      JDict([kind |-> JStr(K_CXXMethodDecl), isImplicit |-> JBool(TRUE)]),
      JDict([kind |-> JStr(K_CXXMethodDecl), isImplicit |-> JBool(FALSE)]),
      JDict([kind |-> JStr(K_CXXMethodDecl), inner |-> FlagParams]),
      JDict([kind |-> JStr(K_FieldDecl)]),
      JDict([id |-> JInt(1)]) }

RECURSIVE SeqsUpTo(_, _)
\* the sequences over S of length at most n
SeqsUpTo(S, n) ==
    IF n = 0 THEN {<<>>}
    ELSE LET shorter == SeqsUpTo(S, n - 1)
         IN  shorter \cup {Append(s, x) : s \in shorter, x \in S}

FlagInputs == {JDict([inner |-> JList(xs)]) : xs \in SeqsUpTo(FlagElems, MaxFlagLen)}

FlagsInit ==
    /\ fl_in \in FlagInputs
    /\ fl_out = NoValue
    /\ nm_trace = <<>>
    /\ ck_in = <<>>
    /\ ck_out = NoValue
    /\ ck_prev = NoValue
    /\ ps_args = NoValue
    /\ ps_hist = <<>>
    /\ arg_clang_executable = NoValue
    /\ arg_root_namespace = NoValue
    /\ arg_package_name = NoValue
    /\ output_file = NoValue
    /\ pc = "idle"
    /\ returncode = NoValue
    /\ parse_success = NoValue
    /\ pp_content = NoValue
    /\ pp_idx = 0
    /\ pp_json_objects = <<>>
    /\ pp_ast_data = NoValue
    /\ passes = <<>>
    /\ post_success = NoValue
    /\ exit_status = NoValue
    /\ log = <<>>

AddLastFlags ==
    /\ fl_in # NoValue
    /\ fl_out = NoValue
    /\ ~FlagsRaises(fl_in)
    /\ fl_out' = add_last_flags_recursive(fl_in)
    /\ UNCHANGED <<fl_in, mainVars, nameVars, checksumVars, passVars>>

FlagsNext == AddLastFlags

SpecFlags == FlagsInit /\ [][FlagsNext]_vars

\* the group of an element as the claim names it: its kind, and for a method
\* whether it is implicit
IsImplicitElem(e) == Has(e, "isImplicit") /\ e.v["isImplicit"] = JBool(TRUE)
ClaimGroup(e) ==
    <<Get(e, "kind", NoValue),
      Get(e, "kind", NoValue) = JStr(K_CXXMethodDecl) /\ IsImplicitElem(e)>>

FlagDone == fl_out # NoValue
FlagList == fl_out.v["inner"].v
FlagGroups == {ClaimGroup(FlagList[i]) : i \in DOMAIN FlagList}
FlagMembers(g) == {i \in DOMAIN FlagList : ClaimGroup(FlagList[i]) = g}
FlagIs(i, flag, b) == Has(FlagList[i], flag) /\ FlagList[i].v[flag] = JBool(b)

\* C10: after add_last_flags_recursive, in a list whose elements fall into
\* exactly two groups (same kind, methods split by isImplicit), exactly one
\* element of each group has first = true, exactly one has last = true, and
\* every element that is neither the first nor the last of its group has
\* both flags false.
C10_TwoGroupsOneFirstOneLast ==
    (FlagDone /\ Cardinality(FlagGroups) = 2) =>
        \A g \in FlagGroups :
            /\ Cardinality({i \in FlagMembers(g) : FlagIs(i, "first", TRUE)}) = 1
            /\ Cardinality({i \in FlagMembers(g) : FlagIs(i, "last", TRUE)}) = 1
            /\ \A i \in FlagMembers(g) :
                   (i # SetMin(FlagMembers(g)) /\ i # SetMax(FlagMembers(g)))
                       => FlagIs(i, "first", FALSE) /\ FlagIs(i, "last", FALSE)

\* the pass has run on a list of two interleaved groups, one of them with an
\* element strictly inside it
C10_Witness ==
    /\ FlagDone
    /\ Cardinality(FlagGroups) = 2
    /\ \E g \in FlagGroups : Cardinality(FlagMembers(g)) >= 3
    /\ \E i \in DOMAIN FlagList : \E j \in DOMAIN FlagList :
           /\ i + 1 < j
           /\ ClaimGroup(FlagList[i]) = ClaimGroup(FlagList[j])
           /\ ClaimGroup(FlagList[i + 1]) # ClaimGroup(FlagList[i])

\* an element opens (closes) a maximal run of consecutive same-group elements
RunStart(i) == i = 1 \/ ClaimGroup(FlagList[i - 1]) # ClaimGroup(FlagList[i])
RunEnd(i) ==
    i = Len(FlagList) \/ ClaimGroup(FlagList[i + 1]) # ClaimGroup(FlagList[i])

\* C11 (as stated): every maximal run of consecutive same-key elements is its
\* own group, so the first element of every run has first = true and the
\* last element of every run has last = true.
C11_EveryRunIsAGroup ==
    FlagDone =>
        \A i \in DOMAIN FlagList :
            /\ RunStart(i) => FlagIs(i, "first", TRUE)
            /\ RunEnd(i) => FlagIs(i, "last", TRUE)

\* C11 (amended): the groups are the equivalence keys over the whole list,
\* wherever their elements stand: an element has first = true exactly when
\* no earlier element of the list has its key, and last = true exactly when
\* no later element has it; in kinds A, B, A the first A has last = false
\* and the last A has first = false.
C11_EveryKeyIsAGroup ==
    FlagDone =>
        \A i \in DOMAIN FlagList :
            LET members == FlagMembers(ClaimGroup(FlagList[i]))
            IN  /\ FlagIs(i, "first", i = SetMin(members))
                /\ FlagIs(i, "last", i = SetMax(members))

\* the pass has run on a list of kinds A, B, A
C11_Witness ==
    /\ FlagDone
    /\ \E i \in DOMAIN FlagList : \E j \in DOMAIN FlagList :
       \E k \in DOMAIN FlagList :
           /\ i < j /\ j < k
           /\ ClaimGroup(FlagList[i]) = ClaimGroup(FlagList[k])
           /\ ClaimGroup(FlagList[i]) # ClaimGroup(FlagList[j])
           /\ FlagIs(i, "last", FALSE)
           /\ FlagIs(k, "first", FALSE)

\* elements that carry a first or a last attribute before the pass
CarriedElems ==
    { JDict([kind |-> JStr(K_FieldDecl)]),
      JDict([kind |-> JStr(K_FieldDecl), first |-> JBool(TRUE)]),
      JDict([kind |-> JStr(K_FieldDecl), last |-> JBool(TRUE)]),
      JDict([kind |-> JStr(K_FieldDecl), first |-> JBool(FALSE), last |-> JBool(FALSE)]),
      JDict([kind |-> JStr(K_CXXMethodDecl)]),
      JDict([kind |-> JStr(K_CXXMethodDecl), first |-> JBool(TRUE), last |-> JBool(TRUE)]) }

CarriedInputs ==
    {JDict([inner |-> JList(xs)]) : xs \in SeqsUpTo(CarriedElems, MaxFlagLen)}

\* the annotator about to run on a list whose elements may carry flags
CarriedFlagsInit ==
    /\ fl_in \in CarriedInputs
    /\ fl_out = NoValue
    /\ nm_trace = <<>>
    /\ ck_in = <<>>
    /\ ck_out = NoValue
    /\ ck_prev = NoValue
    /\ ps_args = NoValue
    /\ ps_hist = <<>>
    /\ arg_clang_executable = NoValue
    /\ arg_root_namespace = NoValue
    /\ arg_package_name = NoValue
    /\ output_file = NoValue
    /\ pc = "idle"
    /\ returncode = NoValue
    /\ parse_success = NoValue
    /\ pp_content = NoValue
    /\ pp_idx = 0
    /\ pp_json_objects = <<>>
    /\ pp_ast_data = NoValue
    /\ passes = <<>>
    /\ post_success = NoValue
    /\ exit_status = NoValue
    /\ log = <<>>

SpecCarriedFlags == CarriedFlagsInit /\ [][FlagsNext]_vars

\* the element's flag is true
FlagSet(i, flag) == Has(FlagList[i], flag) /\ FlagList[i].v[flag] = JBool(TRUE)

\* C24: after add_last_flags_recursive, also on a list whose elements carried
\* a first or last attribute before the pass, an element has first = true if
\* and only if it is the first element of its group and last = true if and
\* only if it is the last element of its group; every other element has
\* first = false and last = false.
C24_FlagsOnlyOnGroupEnds ==
    FlagDone =>
        \A g \in FlagGroups : \A i \in FlagMembers(g) :
            /\ FlagSet(i, "first") <=> i = SetMin(FlagMembers(g))
            /\ FlagSet(i, "last") <=> i = SetMax(FlagMembers(g))
            /\ Has(FlagList[i], "first") /\ FlagList[i].v["first"].ty = "bool"
            /\ Has(FlagList[i], "last") /\ FlagList[i].v["last"].ty = "bool"

(***************************************************************************)
(* The fingerprints as a state machine: two runs of the script are drawn,   *)
(* each a tree with one interface and the arguments of the run; the runs    *)
(* are post-processed one after the other, and the document of the run      *)
(* before is kept for comparison.                                           *)
(***************************************************************************)
MaxMethods == 2

S_f == <<"f">>
S_a == <<"a">>
S_int == <<"i","n","t">>
S_T == <<"T">>
S_int_int == <<"i","n","t"," ","(","i","n","t",")">>
S_void_int_const == <<"v","o","i","d"," ","(","i","n","t",")"," ","c","o","n","s","t">>
S_int_T == <<"i","n","t"," ","(","T",")">>
S_IS == <<"I","S">>
S_IF == <<"I","F">>
S_A_S == <<"A",":",":","S">>
S_a_s == <<"a",":","s">>
S_TranslationUnitDecl == <<"T","r","a","n","s","l","a","t","i","o","n","U","n","i","t","D","e","c","l">>

\* the header being processed and its lines
SourceFile == <<"s","a","m","p","l","e",".","h">>
SourceLines == JList(<<>>)

\* a ParmVarDecl node as the parser writes it
ParmNode(name, qualType) ==
    JDict(("kind" :> JStr(K_ParmVarDecl)) @@ ("name" :> JStr(name))
          @@ ("type" :> JDict(("qualType" :> JStr(qualType)))))

\* a CXXMethodDecl node as the parser writes it
MethodNode(name, qualType, parms) ==
    JDict(("kind" :> JStr(K_CXXMethodDecl)) @@ ("name" :> JStr(name))
          @@ ("type" :> JDict(("qualType" :> JStr(qualType))))
          @@ ("inner" :> JList(parms)))

\* int f(int a);  void f(int a) const;  int f(T a)
CkMethods ==
    { MethodNode(S_f, S_int_int, <<ParmNode(S_a, S_int)>>),
      MethodNode(S_f, S_void_int_const, <<ParmNode(S_a, S_int)>>),
      MethodNode(S_f, S_int_T, <<ParmNode(S_a, S_T)>>) }

\* a CXXRecordDecl node as the parser writes it
RecordNode(name, methods) ==
    JDict(("kind" :> JStr(K_CXXRecordDecl)) @@ ("name" :> JStr(name))
          @@ ("inner" :> JList(methods)))

TreeOf(record) ==
    JDict(("kind" :> JStr(S_TranslationUnitDecl)) @@ ("inner" :> JList(<<record>>)))

\* the interface name with the arguments --root-namespace and --package-name
CkArguments ==
    { [name |-> S_IS, root_namespace |-> S_A_S, package_name |-> S_a_s],
      [name |-> S_IF, root_namespace |-> <<"R">>, package_name |-> <<"p">>] }

CkInputs ==
    { [tree |-> TreeOf(RecordNode(a.name, ms)),
       root_namespace |-> a.root_namespace,
       package_name |-> a.package_name] :
        a \in CkArguments, ms \in SeqsUpTo(CkMethods, MaxMethods) }

ChecksumInit ==
    /\ ck_in \in {<<first, second>> : first \in CkInputs, second \in CkInputs}
    /\ ck_out = NoValue
    /\ ck_prev = NoValue
    /\ ps_args = NoValue
    /\ ps_hist = <<>>
    /\ nm_trace = <<>>
    /\ fl_in = NoValue
    /\ fl_out = NoValue
    /\ arg_clang_executable = NoValue
    /\ arg_root_namespace = NoValue
    /\ arg_package_name = NoValue
    /\ output_file = NoValue
    /\ pc = "idle"
    /\ returncode = NoValue
    /\ parse_success = NoValue
    /\ pp_content = NoValue
    /\ pp_idx = 0
    /\ pp_json_objects = <<>>
    /\ pp_ast_data = NoValue
    /\ passes = <<>>
    /\ post_success = NoValue
    /\ exit_status = NoValue
    /\ log = <<>>

\* one run of the script: lines 1071-1105 on the tree of the run; the
\* document of the run before is kept
PostProcessTree ==
    /\ ck_in # <<>>
    /\ ck_out' = AssembleDocument(
                     RunPasses(1, Head(ck_in).tree, SourceFile, SourceLines,
                               Head(ck_in).package_name, Head(ck_in).root_namespace),
                     Head(ck_in).root_namespace, Head(ck_in).package_name)
    /\ ck_prev' = ck_out
    /\ ck_in' = Tail(ck_in)
    /\ UNCHANGED <<mainVars, nameVars, flagVars, passVars>>

ChecksumNext == PostProcessTree

SpecChecksum == ChecksumInit /\ [][ChecksumNext]_vars

RECURSIVE NodesOf(_)
\* every record (dict) node of a value, at any depth
NodesOf(x) ==
    IF IsDict(x)
    THEN {x} \cup UNION {NodesOf(x.v[key]) : key \in DOMAIN x.v}
    ELSE IF IsList(x)
    THEN UNION {NodesOf(x.v[i]) : i \in DOMAIN x.v}
    ELSE {}

\* the nodes of the documents of this run and of the run before
CkNodes ==
    (IF ck_out = NoValue THEN {} ELSE NodesOf(ck_out))
        \cup (IF ck_prev = NoValue THEN {} ELSE NodesOf(ck_prev))

IsNamedMethodNode(n) == KindIs(n, K_CXXMethodDecl) /\ Truthy(Get(n, "name", JNull))

IsNamedRecordNode(n) == KindIs(n, K_CXXRecordDecl) /\ Truthy(Get(n, "name", JNull))

\* the named CXXMethodDecl nodes and the named CXXRecordDecl nodes of the
\* two documents
CkMethodNodes == {n \in CkNodes : IsNamedMethodNode(n)}

CkRecordNodes == {n \in CkNodes : IsNamedRecordNode(n)}

\* the children of a node that are of the kind
ChildrenOfKind(n, kind) ==
    IF Has(n, "inner") /\ IsList(n.v["inner"])
    THEN SelectSeq(n.v["inner"].v, LAMBDA c : IsDict(c) /\ KindIs(c, kind))
    ELSE <<>>

\* the ordered (type spelling, name) pairs of the ParmVarDecl children of a
\* method, NoValue standing for a spelling or a name that is absent
TypeNamePairs(m) ==
    LET ps == ChildrenOfKind(m, K_ParmVarDecl)
    IN  [i \in DOMAIN ps |->
            <<IF IsDict(Get(ps[i], "type", NoValue))
                 THEN Get(ps[i].v["type"], "qualType", NoValue) ELSE NoValue,
              Get(ps[i], "name", NoValue)>>]

\* C7: any two named CXXMethodDecl nodes, of one document or of the documents
\* of two runs, that have the same name and the same ordered (type spelling,
\* name) pairs of ParmVarDecl children have the same function_checksum,
\* whatever their return types, positions, enclosing interfaces, and the
\* root namespace and package name of their runs.
C7_ChecksumDependsOnSignatureOnly ==
    \A m1 \in CkMethodNodes : \A m2 \in CkMethodNodes :
        (/\ m1.v["name"] = m2.v["name"]
         /\ TypeNamePairs(m1) = TypeNamePairs(m2))
        => /\ Has(m1, "function_checksum") /\ Has(m2, "function_checksum")
           /\ m1.v["function_checksum"] = m2.v["function_checksum"]

\* two methods with the same name and parameters, with different return
\* types, in different interfaces of runs with different arguments, the
\* second not at the same position as the first
C7_Witness ==
    /\ ck_out # NoValue /\ ck_prev # NoValue
    /\ Get(ck_out, "root_namespace", NoValue) # Get(ck_prev, "root_namespace", NoValue)
    /\ Get(ck_out, "package_name", NoValue) # Get(ck_prev, "package_name", NoValue)
    /\ \E r1 \in NodesOf(ck_out) : \E r2 \in NodesOf(ck_prev) :
          /\ IsNamedRecordNode(r1) /\ IsNamedRecordNode(r2)
          /\ LET ms1 == ChildrenOfKind(r1, K_CXXMethodDecl)
                 ms2 == ChildrenOfKind(r2, K_CXXMethodDecl)
             IN  /\ Len(ms1) = 1 /\ Len(ms2) = 2
                 /\ ms1[1].v["name"] = ms2[2].v["name"]
                 /\ TypeNamePairs(ms1[1]) = TypeNamePairs(ms2[2])
                 /\ ms1[1].v["native_return_type"] # ms2[2].v["native_return_type"]
                 /\ TypeNamePairs(ms2[1]) # TypeNamePairs(ms2[2])
                 /\ ms2[1].v["function_checksum"] # ms2[2].v["function_checksum"]
                 /\ ms1[1].v["function_checksum"] = ms2[2].v["function_checksum"]

\* the function_checksum values carried by the direct CXXMethodDecl children
\* of a record, in the order of the children
CarriedChecksums(r) ==
    LET ms == SelectSeq(ChildrenOfKind(r, K_CXXMethodDecl),
                        LAMBDA c : Has(c, "function_checksum"))
    IN  [i \in DOMAIN ms |-> ms[i].v["function_checksum"]]

\* how many times a value occurs in a sequence
Occurrences(x, xs) == Cardinality({i \in DOMAIN xs : xs[i] = x})

\* the two sequences hold the same values the same number of times
SameMultiset(xs, ys) ==
    \A x \in Range(xs) \cup Range(ys) : Occurrences(x, xs) = Occurrences(x, ys)

\* C8 as stated: two named CXXRecordDecl nodes with the same name whose
\* direct CXXMethodDecl children carry the same set of function_checksum
\* values have the same interface_checksum.
C8_SameSetSameChecksum ==
    \A r1 \in CkRecordNodes : \A r2 \in CkRecordNodes :
        (/\ r1.v["name"] = r2.v["name"]
         /\ Range(CarriedChecksums(r1)) = Range(CarriedChecksums(r2)))
        => /\ Has(r1, "interface_checksum") /\ Has(r2, "interface_checksum")
           /\ r1.v["interface_checksum"] = r2.v["interface_checksum"]

\* C8 amended: two named CXXRecordDecl nodes with the same name whose direct
\* CXXMethodDecl children carry the same multiset of function_checksum
\* values (every value as many times in the one as in the other), in any
\* order, have the same interface_checksum.
C8_SameMultisetSameChecksum ==
    \A r1 \in CkRecordNodes : \A r2 \in CkRecordNodes :
        (/\ r1.v["name"] = r2.v["name"]
         /\ SameMultiset(CarriedChecksums(r1), CarriedChecksums(r2)))
        => /\ Has(r1, "interface_checksum") /\ Has(r2, "interface_checksum")
           /\ r1.v["interface_checksum"] = r2.v["interface_checksum"]

\* two interfaces of the same name whose methods carry the same two
\* different fingerprints in opposite orders
C8_Witness ==
    \E r1 \in CkRecordNodes : \E r2 \in CkRecordNodes :
        /\ r1.v["name"] = r2.v["name"]
        /\ Len(CarriedChecksums(r1)) = 2
        /\ CarriedChecksums(r1)[1] # CarriedChecksums(r1)[2]
        /\ CarriedChecksums(r2) = <<CarriedChecksums(r1)[2], CarriedChecksums(r1)[1]>>
        /\ r1.v["interface_checksum"] = r2.v["interface_checksum"]

(***************************************************************************)
(* The entry point as a state machine: main runs the parse step             *)
(* (run_clang_ast_dump) and then the post-process step                      *)
(* (post_process_ast_json), which reads the output file, scans it for       *)
(* objects, merges them, runs the passes and writes the document.  A        *)
(* document written to the output file is held as the value it encodes.     *)
(***************************************************************************)
MaxObjects == 3

\* {"inner":[{"id":1},{"kind":"CXXMethodDecl","name":"f"}]}
FragmentTwoChildren ==
    <<"{","\"","i","n","n","e","r","\"",":","[","{","\"","i","d","\"",":","1",
      "}",",","{","\"","k","i","n","d","\"",":","\"","C","X","X","M","e","t",
      "h","o","d","D","e","c","l","\"",",","\"","n","a","m","e","\"",":","\"",
      "f","\"","}","]","}">>

\* {"inner":[{"id":3}]}
FragmentOneChild ==
    <<"{","\"","i","n","n","e","r","\"",":","[","{","\"","i","d","\"",":","3",
      "}","]","}">>

\* {"id":4}
FragmentNoInner ==
    <<"{","\"","i","d","\"",":","4","}">>

\* {"inner":{}}
FragmentInnerNotList ==
    <<"{","\"","i","n","n","e","r","\"",":","{","}","}">>

\* {"kind":"CXXMethodDecl","name":5}
FragmentNameNotText ==
    <<"{","\"","k","i","n","d","\"",":","\"","C","X","X","M","e","t","h","o",
      "d","D","e","c","l","\"",",","\"","n","a","m","e","\"",":","5","}">>

\* x
FragmentJunk ==
    <<"x">>

\* the objects the parser may write, and text that is not JSON
Fragments ==
    { FragmentTwoChildren, FragmentOneChild, FragmentNoInner, FragmentInnerNotList,
      FragmentNameNotText, FragmentJunk }

\* the white space before the first object
LeadingSpaces == { <<>>, <<" ">>, <<" ", " ">> }

RECURSIVE JoinLines(_)
\* every fragment followed by a newline
JoinLines(fragments) ==
    IF fragments = <<>> THEN <<>>
    ELSE Head(fragments) \o <<"\n">> \o JoinLines(Tail(fragments))

\* what the parser may print on its standard output
ClangOutputs ==
    { lead \o JoinLines(fragments) :
        lead \in LeadingSpaces, fragments \in SeqsUpTo(Fragments, MaxObjects) }

ClangPlusPlus == <<"/","u","s","r","/","b","i","n","/","c","l","a","n","g","+","+">>
ClangCl == <<"C",":","/","L","L","V","M","/","b","i","n","/","c","l","a","n","g","-","c","l",".","e","x","e">>
S_clang_cl == <<"c","l","a","n","g","-","c","l">>

\* line 508: "clang-cl" in os.path.basename(clang_executable).lower()
IsClangCl(executable) ==
    Contains(Lower(LastOf(SplitStr(executable, S_Slash))), S_clang_cl)

\* the exit status of the script when main returns (line 1177: main returns
\* whatever the two steps reported)
MainExitStatusChecked(parse_result, post_result) ==
    IF post_result = JBool(TRUE) THEN 0 ELSE 1

MainExitStatus(parse_result, post_result) == 0

Init ==
    /\ arg_clang_executable \in {ClangPlusPlus, ClangCl}
    /\ arg_root_namespace \in {S_A_S, <<>>}
    /\ arg_package_name \in {S_a_s, <<>>}
    /\ output_file \in {NoValue, JStr(JoinLines(<<FragmentOneChild>>))}
    /\ pc = "main"
    /\ returncode = NoValue
    /\ parse_success = NoValue
    /\ pp_content = NoValue
    /\ pp_idx = 0
    /\ pp_json_objects = <<>>
    /\ pp_ast_data = NoValue
    /\ passes = <<>>
    /\ post_success = NoValue
    /\ exit_status = NoValue
    /\ log = <<>>
    /\ nm_trace = <<>>
    /\ fl_in = NoValue
    /\ fl_out = NoValue
    /\ ck_in = <<>>
    /\ ck_out = NoValue
    /\ ck_prev = NoValue
    /\ ps_args = NoValue
    /\ ps_hist = <<>>

otherVars == <<nameVars, flagVars, checksumVars, passVars>>

\* lines 508-511: clang-cl is refused, the step reports failure
RunClangCl ==
    /\ pc = "main"
    /\ IsClangCl(arg_clang_executable)
    /\ log' = Append(log, "ERROR: clang-cl detected")
    /\ parse_success' = JBool(FALSE)
    /\ pc' = "post_process"
    /\ UNCHANGED <<argVars, output_file, returncode, scanVars, pp_ast_data, passes,
                   post_success, exit_status, otherVars>>

\* lines 553-559 and 578-583: the parser cannot be started; the exception is
\* logged and raised again, and main, which catches nothing, ends with a
\* traceback
RunClangCannotStart ==
    /\ pc = "main"
    /\ ~IsClangCl(arg_clang_executable)
    /\ log' = Append(log, "Error running clang")
    /\ exit_status' = JInt(1)
    /\ pc' = "exit"
    /\ UNCHANGED <<argVars, output_file, returncode, parse_success, scanVars,
                   pp_ast_data, passes, post_success, otherVars>>

\* lines 567-571 and 581-583: the parser exits with a status that is not
\* zero; RuntimeError is raised, logged and raised again
RunClangNonZero ==
    /\ pc = "main"
    /\ ~IsClangCl(arg_clang_executable)
    /\ \E status \in {1, 2} : returncode' = JInt(status)
    /\ log' = Append(log, "Error running clang")
    /\ exit_status' = JInt(1)
    /\ pc' = "exit"
    /\ UNCHANGED <<argVars, output_file, parse_success, scanVars, pp_ast_data, passes,
                   post_success, otherVars>>

\* lines 573-577: the parser exits with status zero; its output is written
\* to the output file
RunClangOk ==
    /\ pc = "main"
    /\ ~IsClangCl(arg_clang_executable)
    /\ returncode' = JInt(0)
    /\ \E stdout \in ClangOutputs : output_file' = JStr(stdout)
    /\ parse_success' = JBool(TRUE)
    /\ pc' = "post_process"
    /\ UNCHANGED <<argVars, scanVars, pp_ast_data, passes, post_success, exit_status,
                   log, otherVars>>

\* lines 1035-1041: the file is read; a file that is not there ends the
\* step in the handler of line 1114
PostProcessRead ==
    /\ pc = "post_process"
    /\ IF output_file = NoValue
       THEN /\ post_success' = JBool(FALSE)
            /\ log' = Append(log, "Error post-processing AST JSON")
            /\ pc' = "returned"
            /\ UNCHANGED scanVars
       ELSE /\ pp_content' = output_file
            /\ pp_idx' = 0
            /\ pp_json_objects' = <<>>
            /\ pc' = "scan"
            /\ UNCHANGED <<post_success, log>>
    /\ UNCHANGED <<argVars, output_file, returncode, parse_success, pp_ast_data, passes,
                   exit_status, otherVars>>

\* lines 1042-1054: one pass of the scan loop
ScanFragment ==
    /\ pc = "scan"
    /\ LET s == ScanOnce(pp_content.v, pp_idx, pp_json_objects)
       IN  /\ pp_idx' = s.idx
           /\ pp_json_objects' = s.json_objects
           /\ pc' = IF s.more THEN "scan" ELSE "merge"
    /\ UNCHANGED <<argVars, output_file, returncode, parse_success, pp_content,
                   pp_ast_data, passes, post_success, exit_status, log, otherVars>>

\* lines 1056-1068: no object is an error; the objects are merged
MergeFragments ==
    /\ pc = "merge"
    /\ IF pp_json_objects = <<>> \/ MergeRaises(pp_json_objects)
       THEN /\ post_success' = JBool(FALSE)
            /\ log' = Append(log, "Error post-processing AST JSON")
            /\ pc' = "returned"
            /\ UNCHANGED pp_ast_data
       ELSE /\ pp_ast_data' = MergeObjects(pp_json_objects)
            /\ pc' = "pass"
            /\ UNCHANGED <<post_success, log>>
    /\ UNCHANGED <<argVars, output_file, returncode, parse_success, scanVars, passes,
                   exit_status, otherVars>>

\* lines 1070-1083: the next pass
RunNextPass ==
    /\ pc = "pass"
    /\ LET pass == PassOrder[Len(passes) + 1]
       IN  IF PassRaises(pass, pp_ast_data, arg_package_name)
           THEN /\ post_success' = JBool(FALSE)
                /\ log' = Append(log, "Error post-processing AST JSON")
                /\ pc' = "returned"
                /\ UNCHANGED <<pp_ast_data, passes>>
           ELSE /\ pp_ast_data' = RunPass(pass, pp_ast_data, SourceFile, SourceLines,
                                          arg_package_name, arg_root_namespace)
                /\ passes' = Append(passes, pass)
                /\ pc' = IF Len(passes) + 1 = Len(PassOrder) THEN "assemble" ELSE "pass"
                /\ UNCHANGED <<post_success, log>>
    /\ UNCHANGED <<argVars, output_file, returncode, parse_success, scanVars,
                   exit_status, otherVars>>

\* lines 1085-1116: the document is assembled and written over the text
AssembleAndWrite ==
    /\ pc = "assemble"
    /\ IF AssembleRaises(pp_ast_data)
       THEN /\ post_success' = JBool(FALSE)
            /\ log' = Append(log, "Error post-processing AST JSON")
            /\ UNCHANGED <<pp_ast_data, output_file>>
       ELSE /\ pp_ast_data' = AssembleDocument(pp_ast_data, arg_root_namespace,
                                               arg_package_name)
            /\ output_file' = pp_ast_data'
            /\ post_success' = JBool(TRUE)
            /\ log' = Append(log, "Successfully post-processed AST JSON")
    /\ pc' = "returned"
    /\ UNCHANGED <<argVars, returncode, parse_success, scanVars, passes, exit_status,
                   otherVars>>

\* lines 1176-1177: main prints "Done!" and returns
MainDone ==
    /\ pc = "returned"
    /\ log' = Append(log, "Done!")
    /\ exit_status' = JInt(MainExitStatus(parse_success, post_success))
    /\ pc' = "exit"
    /\ UNCHANGED <<argVars, output_file, returncode, parse_success, scanVars,
                   pp_ast_data, passes, post_success, otherVars>>

Next ==
    \/ RunClangCl
    \/ RunClangCannotStart
    \/ RunClangNonZero
    \/ RunClangOk
    \/ PostProcessRead
    \/ ScanFragment
    \/ MergeFragments
    \/ RunNextPass
    \/ AssembleAndWrite
    \/ MainDone

Spec == Init /\ [][Next]_vars

\* C1: when the parser exits with a status that is not zero, the parse step
\* does not raise and main still attempts the post-process step.
C1_PostProcessAfterFailedParse ==
    (returncode # NoValue /\ returncode # JInt(0))
        => /\ exit_status # JInt(1)
           /\ pc = "exit" => post_success # NoValue

\* C2: once the parse step has written the output file, main never ends
\* with a failure status: it ends with exit status 0 whether the
\* post-process step reported success or failure, and a failure of the
\* post-process step shows only as a message.
C2_ExitZeroOnceFileWritten ==
    parse_success = JBool(TRUE)
        => /\ exit_status \in {NoValue, JInt(0)}
           /\ pc = "exit" => /\ exit_status = JInt(0)
                             /\ post_success \in {JBool(TRUE), JBool(FALSE)}
                             /\ post_success = JBool(FALSE) =>
                                   "Error post-processing AST JSON" \in Range(log)

\* the parse step wrote the file, the post-process step failed, main ended
C2_Witness ==
    /\ pc = "exit"
    /\ parse_success = JBool(TRUE)
    /\ post_success = JBool(FALSE)
    /\ exit_status = JInt(0)

\* the text holds no decodable object: it is empty or white space, or what
\* follows the leading white space does not decode
NoDecodableObject(text) ==
    LET at == SkipSpace(text, 1)
    IN  at > Len(text) \/ ~DecodeValue(text, at).ok

\* C3: when the text read holds no decodable object, the post-process step
\* runs no pass, builds no tree, leaves the output file as it read it, and
\* reports failure.
C3_NoObjectIsFatal ==
    (pp_content # NoValue /\ NoDecodableObject(pp_content.v))
        => /\ passes = <<>>
           /\ pp_ast_data = NoValue
           /\ output_file = pp_content
           /\ post_success = IF pc \in {"returned", "exit"} THEN JBool(FALSE) ELSE NoValue

\* a text that begins with undecodable text and holds an object after it
\* has been post-processed
C3_Witness ==
    /\ pc = "exit"
    /\ pp_content # NoValue
    /\ NoDecodableObject(pp_content.v)
    /\ Contains(pp_content.v, FragmentOneChild)
    /\ post_success = JBool(FALSE)

\* C4: whenever at least one object was decoded, the post-process step
\* reports success and has written the document, whatever the shapes of the
\* objects and nodes.
C4_DocumentAlwaysWritten ==
    (pc \in {"returned", "exit"} /\ pp_json_objects # <<>>)
        => /\ post_success = JBool(TRUE)
           /\ IsDict(output_file)
           /\ output_file = pp_ast_data

RECURSIVE TextObjects(_, _, _)
\* the objects a text holds, one after the other with white space between
\* them, read from position p on; whole tells that the text holds nothing
\* else
TextObjects(text, p, objects) ==
    LET at == SkipSpace(text, p)
        r == DecodeValue(text, at)
    IN  IF at > Len(text) THEN [objects |-> objects, whole |-> TRUE]
        ELSE IF ~r.ok THEN [objects |-> objects, whole |-> FALSE]
        ELSE TextObjects(text, r.next, Append(objects, r.val))

\* a tree object: a record whose inner, when it has one, is a list
IsTreeObject(obj) == IsDict(obj) /\ (Has(obj, "inner") => IsList(obj.v["inner"]))

\* the top-level children of a tree object
TopChildren(obj) == IF HasInnerList(obj) THEN obj.v["inner"].v ELSE <<>>

RECURSIVE AllChildren(_)
\* the children of the objects, object after object
AllChildren(objects) ==
    IF objects = <<>> THEN <<>>
    ELSE TopChildren(Head(objects)) \o AllChildren(Tail(objects))

\* the text read is N >= 1 tree objects separated by white space
HoldsTreeObjects(text) ==
    LET held == TextObjects(text, 1, <<>>)
    IN  /\ held.whole
        /\ Len(held.objects) >= 1
        /\ \A i \in DOMAIN held.objects : IsTreeObject(held.objects[i])

\* the scan loop has ended
ScanEnded == pp_content # NoValue /\ pc \in {"merge", "pass", "assemble", "returned", "exit"}

\* the merge has just been made or has failed: no pass has run since
MergeEnded ==
    pp_content # NoValue /\ pc \in {"pass", "assemble", "returned", "exit"} /\ passes = <<>>

\* C5: for a text of N >= 1 tree objects separated by white space, the scan
\* decodes the N objects, and the merged tree is the first object with, as
\* children, its children followed by those of objects 2..N in order.
C5_AllObjectsDecodedAndMerged ==
    (ScanEnded /\ HoldsTreeObjects(pp_content.v))
        => LET held == TextObjects(pp_content.v, 1, <<>>).objects
           IN  /\ pp_json_objects = held
               /\ MergeEnded =>
                     pp_ast_data = IF Len(held) = 1 THEN held[1]
                                   ELSE Put(held[1], "inner", JList(AllChildren(held)))

\* C6: for a text of exactly two tree objects that each have a children
\* list, the merged tree's children are the children of the first followed
\* by the children of the second.
C6_TwoObjectsConcatenated ==
    LET held == TextObjects(pp_content.v, 1, <<>>)
    IN  (/\ MergeEnded
         /\ held.whole
         /\ Len(held.objects) = 2
         /\ HasInnerList(held.objects[1]) /\ HasInnerList(held.objects[2]))
        => /\ HasInnerList(pp_ast_data)
           /\ pp_ast_data.v["inner"].v =
                  held.objects[1].v["inner"].v \o held.objects[2].v["inner"].v

(***************************************************************************)
(* The tree passes as a state machine: the merged tree and the arguments    *)
(* of one run of post_process_ast_json are drawn, and the five passes and   *)
(* the assembly of the document run in the order of lines 1070-1105.        *)
(***************************************************************************)
S_g == <<"g">>
S_h == <<"h">>
S_b == <<"b">>
S_J == <<"J">>
S_E == <<"E">>
S_other_h == <<"o",".","h">>
S_dot_sample_h == <<".","/","s","a","m","p","l","e",".","h">>
S_int_void == <<"i","n","t"," ","(",")">>
S_T_T == <<"T"," ","(","T",")">>
S_void_T_int == <<"v","o","i","d"," ","(","T",","," ","i","n","t",")">>

\* the lines of the header: a marker on line 1, none on line 2
PsSourceLines ==
    JList(<<JStr(<<"M","E","T","A","D","A","T","A","(","E",")","\n">>),
            JStr(<<"x","\n">>),
            JStr(S_METADATA \o <<"(","J",")"," ">> \o S_METADATA \o <<"(","g",")","\n">>)>>)

\* a location as the parser writes it
Loc(line, col, file) ==
    JDict(("line" :> JInt(line)) @@ ("col" :> JInt(col)) @@ ("file" :> JStr(file)))

\* range.begin of a node written in a macro: the location of the use
Expanded(expansion_loc) == JDict(("expansionLoc" :> expansion_loc))

\* range.begin values: direct locations and macro expansions, in the header
\* and in another file, complete and incomplete
PsBegins ==
    { Expanded(Loc(1, 1, SourceFile)),
      Expanded(Loc(1, 1, S_other_h)),
      Expanded(Loc(2, 1, SourceFile)),
      Loc(1, 1, SourceFile),
      Loc(1, 1, S_other_h),
      Loc(1, 1, S_dot_sample_h),
      Loc(2, 1, SourceFile),
      Loc(3, 1, SourceFile),
      Loc(3, 13, SourceFile),
      JDict(("col" :> JInt(1)) @@ ("file" :> JStr(SourceFile))),
      JDict(Loc(1, 1, SourceFile).v @@ ("expansionLoc" :> Loc(1, 1, S_other_h))),
      JDict(Loc(1, 1, SourceFile).v @@ ("expansionLoc" :> JDict(("col" :> JInt(1))))),
      JDict(Loc(1, 1, SourceFile).v @@ ("expansionLoc" :> JDict(<<>>))) }

\* a node with a range
RangedNode(kind, begin) ==
    JDict(("kind" :> JStr(kind)) @@ ("range" :> JDict(("begin" :> begin))))

PsAttrs ==
    {RangedNode(K_AnnotateAttr, begin) : begin \in PsBegins}
        \cup {RangedNode(K_FieldDecl, Expanded(Loc(1, 1, SourceFile)))}

\* a ParmVarDecl node without a type, and one whose type is text and not a
\* record
UntypedParm(name) == JDict(("kind" :> JStr(K_ParmVarDecl)) @@ ("name" :> JStr(name)))
TextTypedParm(name) ==
    JDict(("kind" :> JStr(K_ParmVarDecl)) @@ ("name" :> JStr(name))
          @@ ("type" :> JStr(S_int)))

\* the trees: an attribute on an interface and another on its method; an interface J
\* nested in an interface with methods before and after it; a method outside
\* every interface, before and after an interface that holds an unnamed record
PsTrees(name) ==
    UNION {
        { TreeOf(RecordNode(name,
              <<attr, MethodNode(S_f, S_int_int,
                          <<ParmNode(S_a, S_int),
                            RangedNode(K_AnnotateAttr, Loc(1, 1, SourceFile)),
                            RangedNode(K_AnnotateAttr, Loc(3, 13, SourceFile))>>)>>)),
          TreeOf(RecordNode(name,
              <<MethodNode(S_f, S_void_T_int, <<ParmNode(S_a, S_T), ParmNode(S_b, S_int)>>),
                RecordNode(S_J, <<MethodNode(S_g, S_T_T, <<ParmNode(S_a, S_T)>>), attr>>),
                MethodNode(S_h, S_int_void, <<UntypedParm(S_a)>>)>>)),
          JDict(("kind" :> JStr(S_TranslationUnitDecl))
                @@ ("inner" :> JList(<<
                      MethodNode(S_g, S_int_void, <<attr>>),
                      RecordNode(name, <<
                          JDict(("kind" :> JStr(K_CXXRecordDecl))
                                @@ ("inner" :> JList(<<
                                      MethodNode(S_f, S_int_int,
                                                 <<ParmNode(S_a, S_int)>>)>>)))>>),
                      MethodNode(S_h, S_int_void, <<UntypedParm(S_a), TextTypedParm(S_b)>>)>>))) }
        : attr \in PsAttrs }

\* type spellings: the keys of the primitive-type table and others
PsSpellings ==
    {TYPE_CONVERSION_TABLE[i].native : i \in DOMAIN TYPE_CONVERSION_TABLE}
        \cup { S_T, <<"I","n","t">>, <<"c","o","n","s","t"," ","i","n","t">>,
               <<"i","n","t"," ","&">>, <<"s","t","d",":",":","s","t","r","i","n","g">> }

\* the trees of one method that returns and takes one spelling
PsTypeTrees(name) ==
    { TreeOf(RecordNode(name,
          <<MethodNode(S_f, spelling \o <<" ", "(">> \o spelling \o <<")">>,
                       <<ParmNode(S_a, spelling)>>)>>))
        : spelling \in PsSpellings }

\* a tree with a top-level field that has the name of a metadata field, and
\* a method without a name
PsNamesakeTree(name) ==
    JDict(("package_name" :> JStr(S_J))
          @@ TreeOf(RecordNode(name,
                 <<MethodNode(S_f, S_int_void, <<>>),
                   JDict(("kind" :> JStr(K_CXXMethodDecl)))>>)).v)

\* the order in which the text of the tree lists its top-level fields
PsKeyOrders(tree) ==
    IF Has(tree, "package_name")
    THEN { <<"package_name", "kind", "inner">>, <<"kind", "inner", "package_name">> }
    ELSE { <<"kind", "inner">>, <<"inner", "kind">> }

\* the interface name with the arguments --root-namespace and --package-name,
\* each of the two also empty
PsArguments ==
    CkArguments
        \cup { [name |-> S_IS, root_namespace |-> <<>>, package_name |-> S_a_s],
               [name |-> S_IS, root_namespace |-> S_A_S, package_name |-> <<>>] }

PsInputs ==
    UNION {
        { [tree |-> tree, keys |-> keys, source_file |-> SourceFile,
           source_lines |-> PsSourceLines,
           root_namespace |-> a.root_namespace, package_name |-> a.package_name] :
            keys \in PsKeyOrders(tree) }
        : a \in PsArguments,
          tree \in UNION {PsTrees(b.name) \cup PsTypeTrees(b.name)
                             \cup {PsNamesakeTree(b.name)} : b \in PsArguments} }

PassesInit ==
    /\ ps_args \in PsInputs
    /\ ps_hist = <<ps_args.tree>>
    /\ nm_trace = <<>>
    /\ fl_in = NoValue
    /\ fl_out = NoValue
    /\ ck_in = <<>>
    /\ ck_out = NoValue
    /\ ck_prev = NoValue
    /\ arg_clang_executable = NoValue
    /\ arg_root_namespace = NoValue
    /\ arg_package_name = NoValue
    /\ output_file = NoValue
    /\ pc = "idle"
    /\ returncode = NoValue
    /\ parse_success = NoValue
    /\ pp_content = NoValue
    /\ pp_idx = 0
    /\ pp_json_objects = <<>>
    /\ pp_ast_data = NoValue
    /\ passes = <<>>
    /\ post_success = NoValue
    /\ exit_status = NoValue
    /\ log = <<>>

\* line 1071
AnnotationPass ==
    /\ Len(ps_hist) = 1
    /\ ~AnnotationRaises(ps_hist[1])
    /\ ps_hist' = Append(ps_hist,
           add_annotation_strings_recursive(ps_hist[1], ps_args.source_file,
                                            ps_args.source_lines))
    /\ UNCHANGED <<ps_args, mainVars, nameVars, flagVars, checksumVars>>

\* line 1074
WitPass ==
    /\ Len(ps_hist) = 2
    /\ ~WalkerRaises(ps_hist[2], ps_args.package_name)
    /\ ps_hist' = Append(ps_hist,
           add_wit_format_names_recursive(ps_hist[2], ps_args.package_name,
                                          ps_args.root_namespace, NoContext))
    /\ UNCHANGED <<ps_args, mainVars, nameVars, flagVars, checksumVars>>

\* line 1077
SignaturePass ==
    /\ Len(ps_hist) = 3
    /\ ~SignatureRaises(ps_hist[3])
    /\ ps_hist' = Append(ps_hist, extract_method_signature_details(ps_hist[3]))
    /\ UNCHANGED <<ps_args, mainVars, nameVars, flagVars, checksumVars>>

\* the ordering annotator run before the signature extractor
FlagsPassBeforeSignatures ==
    /\ Len(ps_hist) = 4
    /\ ~FlagsRaises(ps_hist[3])
    /\ ps_hist' = Append(ps_hist,
           extract_method_signature_details(add_last_flags_recursive(ps_hist[3])))
    /\ UNCHANGED <<ps_args, mainVars, nameVars, flagVars, checksumVars>>

\* line 1080
FlagsPass ==
    /\ Len(ps_hist) = 4
    /\ ~FlagsRaises(ps_hist[4])
    /\ ps_hist' = Append(ps_hist, add_last_flags_recursive(ps_hist[4]))
    /\ UNCHANGED <<ps_args, mainVars, nameVars, flagVars, checksumVars>>

\* line 1083
ChecksumsPass ==
    /\ Len(ps_hist) = 5
    /\ ps_hist' = Append(ps_hist, add_interface_checksums_recursive(ps_hist[5]))
    /\ UNCHANGED <<ps_args, mainVars, nameVars, flagVars, checksumVars>>

\* lines 1085-1105: the document, with the order of its fields; the passes
\* add no field to a top-level node of these trees
AssembleStep ==
    /\ Len(ps_hist) = 6
    /\ ~AssembleRaises(ps_hist[6])
    /\ DOMAIN ps_hist[6].v = Range(ps_args.keys)
    /\ ps_hist' = Append(ps_hist,
           [ty |-> "dict",
            v |-> AssembleDocument(ps_hist[6], ps_args.root_namespace,
                                   ps_args.package_name).v,
            keys |-> DocumentKeys(ps_args.keys, ps_args.root_namespace,
                                  ps_args.package_name)])
    /\ UNCHANGED <<ps_args, mainVars, nameVars, flagVars, checksumVars>>

PassesNext ==
    \/ AnnotationPass
    \/ WitPass
    \/ SignaturePass
    \/ FlagsPass
    \/ ChecksumsPass
    \/ AssembleStep

SpecPasses == PassesInit /\ [][PassesNext]_vars

\* the k-th pass has just run, and the tree it left
JustRan(k) == Len(ps_hist) = k + 1
TreeAfter(k) == ps_hist[k + 1]

\* the document, once assembled
Assembled == Len(ps_hist) = 7
Document == ps_hist[7]

\* the location a node is written at: where the macro is used when the node
\* names such a place, else its direct location
WrittenAt(n) ==
    LET begin == Get(Get(n, "range", JDict(<<>>)), "begin", JDict(<<>>))
    IN  IF Has(begin, "expansionLoc") /\ DOMAIN begin.v["expansionLoc"].v # {}
        THEN begin.v["expansionLoc"]
        ELSE begin

\* the location names a line, a column and the header being processed
InProcessedFile(loc) ==
    /\ Has(loc, "line") /\ Has(loc, "col") /\ Has(loc, "file")
    /\ NormPath(loc.v["file"].v) = NormPath(ps_args.source_file)

\* C12: right after the annotation pass a node has an annotation attribute only if
\* it is an AnnotateAttr node whose resolved location has a line, a column
\* and a file equal (after normalisation) to the processed source file;
\* an AnnotateAttr node resolved to another file and a node of another kind
\* have none.
C12_AnnotationOnlyInProcessedFile ==
    JustRan(1) =>
        \A n \in NodesOf(TreeAfter(1)) :
            Has(n, "annotation") =>
                KindIs(n, K_AnnotateAttr) /\ InProcessedFile(WrittenAt(n))

\* the pass has run on a tree with an AnnotateAttr node it annotated and
\* another one, written in another file on a line that has a marker in the
\* header, that it left alone
C12_Witness ==
    /\ JustRan(1)
    /\ \E n \in NodesOf(TreeAfter(1)) : \E m \in NodesOf(TreeAfter(1)) :
           /\ KindIs(n, K_AnnotateAttr) /\ Has(n, "annotation")
           /\ KindIs(m, K_AnnotateAttr) /\ ~Has(m, "annotation")
           /\ Has(WrittenAt(m), "file")
           /\ WrittenAt(m).v["file"] = JStr(S_other_h)
           /\ WrittenAt(m).v["line"] = JInt(1)

RECURSIVE MethodsUnder(_, _)
\* the named CXXMethodDecl nodes of a value, each with the nearest named
\* CXXRecordDecl node that encloses it (NoValue when none does)
MethodsUnder(x, owner) ==
    IF IsDict(x)
    THEN (IF IsNamedMethodNode(x) THEN {[method |-> x, owner |-> owner]} ELSE {})
         \cup UNION {MethodsUnder(x.v[key], IF IsNamedRecordNode(x) THEN x ELSE owner)
                        : key \in DOMAIN x.v}
    ELSE IF IsList(x)
    THEN UNION {MethodsUnder(x.v[i], owner) : i \in DOMAIN x.v}
    ELSE {}

\* the methods of the tree that an interface encloses
OwnedMethods(tree) == {p \in MethodsUnder(tree, NoValue) : p.owner # NoValue}

\* the attribute of the method is the attribute of the interface, the
\* separator and the local form of the method's name
IsQualifiedBy(p, fullname, interface_key, sep, name_key) ==
    /\ Has(p.method, fullname) /\ Has(p.owner, interface_key) /\ Has(p.method, name_key)
    /\ p.method.v[fullname]
           = JStr(p.owner.v[interface_key].v \o sep \o p.method.v[name_key].v)

\* C13: after the walker, with root namespace and package name non-empty,
\* each per-target fully qualified function name of a named method inside a
\* named record is the per-target qualified name of the nearest enclosing
\* named record, the target's separator ('::' C++, '.' C#, '::' Rust) and the
\* method's per-target function name; never the name of an outer or of a
\* sibling interface.
C13_FullnamesFromNearestInterface ==
    (JustRan(2) /\ ps_args.root_namespace # <<>> /\ ps_args.package_name # <<>>) =>
        \A p \in OwnedMethods(TreeAfter(2)) :
            /\ IsQualifiedBy(p, "witgen_cxx_function_fullname",
                   "witgen_cxx_interface_fullname", S_ColonColon,
                   "witgen_cxx_function_name")
            /\ IsQualifiedBy(p, "witgen_csharp_function_fullname",
                   "witgen_csharp_interface_fullname", <<".">>,
                   "witgen_csharp_function_name")
            /\ IsQualifiedBy(p, "witgen_rust_function_fullname",
                   "witgen_rust_interface_fullname", S_ColonColon,
                   "witgen_rust_function_name")
            /\ IsQualifiedBy(p, "wasm_cxx_function_fullname",
                   "wasm_cxx_interface_fullname", S_ColonColon,
                   "wasm_cxx_function_name")
            /\ IsQualifiedBy(p, "wasm_csharp_function_fullname",
                   "wasm_csharp_interface_name", <<".">>,
                   "wasm_csharp_function_name")
            /\ IsQualifiedBy(p, "wasm_rust_function_fullname",
                   "wasm_rust_interface_fullname", S_ColonColon,
                   "wasm_rust_function_name")

\* the walker has run on a tree where an interface holds a method, then a
\* nested interface with its own method, then another method
C13_Witness ==
    /\ JustRan(2)
    /\ \E p \in OwnedMethods(TreeAfter(2)) : \E q \in OwnedMethods(TreeAfter(2)) :
       \E r \in OwnedMethods(TreeAfter(2)) :
           /\ p.owner.v["name"] = JStr(S_J)
           /\ q.owner = r.owner
           /\ q.owner.v["name"] # JStr(S_J)
           /\ q.method.v["name"] = JStr(S_f)
           /\ r.method.v["name"] = JStr(S_h)
           /\ p.owner \in NodesOf(q.owner)

\* the metadata fields in the order the document is to list them
MetadataOrder ==
    <<"root_namespace", "root_namespace_dotnet", "root_namespace_rust",
      "root_namespace_last", "root_namespace_dotnet_last", "root_namespace_rust_last",
      "package_name", "wit_package_name", "witgen_cxx_namespace_fullname",
      "witgen_dotnet_namespace_fullname", "witgen_rust_namespace_fullname">>

\* the metadata fields of this run: those of the arguments that are given
RunMetadata ==
    SelectSeq(MetadataOrder,
              LAMBDA key : IF IndexIn(key, MetadataOrder) <= 6
                           THEN ps_args.root_namespace # <<>>
                           ELSE ps_args.package_name # <<>>)

IsMetadataKey(key) == key \in Range(RunMetadata)

\* C14: in the assembled document the top-level fields come in this order:
\* root_namespace and its derived spellings, then package_name, its derived
\* spellings and the per-target namespace fullnames, then the fields of the
\* enriched tree in the order of the tree; no field of the tree stands
\* before a metadata field.
C14_MetadataFieldsFirst ==
    Assembled =>
        /\ Range(Document.keys) = DOMAIN Document.v
        /\ SubSeq(Document.keys, 1, Len(RunMetadata)) = RunMetadata
        /\ SubSeq(Document.keys, Len(RunMetadata) + 1, Len(Document.keys))
               = SelectSeq(ps_args.keys, LAMBDA key : ~IsMetadataKey(key))
        /\ \A key \in Range(ps_args.keys) : Document.v[key] = TreeAfter(5).v[key]

\* a document assembled with both arguments given, from a tree whose text
\* lists a field named package_name after its other fields
C14_Witness ==
    /\ Assembled
    /\ ps_args.root_namespace # <<>>
    /\ ps_args.package_name # <<>>
    /\ ps_args.keys = <<"kind", "inner", "package_name">>
    /\ Len(Document.keys) = Len(MetadataOrder) + 2

\* the translations of a native spelling: the entries of its row of the
\* table when it is a key, else the spelling itself
IsTranslationOf(native, csharp, rust) ==
    IF \E i \in DOMAIN TYPE_CONVERSION_TABLE : TYPE_CONVERSION_TABLE[i].native = native.v
    THEN \E i \in DOMAIN TYPE_CONVERSION_TABLE :
             /\ TYPE_CONVERSION_TABLE[i].native = native.v
             /\ csharp = JStr(TYPE_CONVERSION_TABLE[i].csharp)
             /\ rust = JStr(TYPE_CONVERSION_TABLE[i].rust)
    ELSE csharp = native /\ rust = native

IsTableKey(spelling) ==
    \E i \in DOMAIN TYPE_CONVERSION_TABLE : TYPE_CONVERSION_TABLE[i].native = spelling

\* the methods of a tree and the parameter descriptors of a method
MethodNodesOf(tree) == {n \in NodesOf(tree) : KindIs(n, K_CXXMethodDecl)}
DescriptorsOf(m) == {m.v["parameters"].v[i] : i \in DOMAIN m.v["parameters"].v}

\* C15: the signature extractor raises no error on text spellings, and the
\* C# and Rust translations of every return type and parameter type are the
\* table's entries when the native spelling is a key of the primitive-type
\* table, and the native spelling unchanged when it is not.
C15_TypeMissPassesThrough ==
    /\ Len(ps_hist) = 3 => ~SignatureRaises(ps_hist[3])
    /\ JustRan(3) =>
           \A m \in MethodNodesOf(TreeAfter(3)) :
               /\ Has(m, "native_return_type") =>
                      IsTranslationOf(m.v["native_return_type"],
                                      m.v["csharp_return_type"], m.v["rust_return_type"])
               /\ \A d \in DescriptorsOf(m) :
                      IsTranslationOf(d.v["native_type"], d.v["csharp_type"],
                                      d.v["rust_type"])

\* the extractor has run on a method whose return type is no key of the
\* table and on one with a parameter type that is a key and one that is not
C15_Witness ==
    /\ JustRan(3)
    /\ \E m \in MethodNodesOf(TreeAfter(3)) :
           /\ Has(m, "native_return_type")
           /\ ~IsTableKey(m.v["native_return_type"].v)
           /\ m.v["rust_return_type"] = m.v["native_return_type"]
    /\ \E m \in MethodNodesOf(TreeAfter(3)) :
       \E d \in DescriptorsOf(m) : \E e \in DescriptorsOf(m) :
           /\ ~IsTableKey(d.v["native_type"].v)
           /\ d.v["csharp_type"] = d.v["native_type"]
           /\ IsTableKey(e.v["native_type"].v)
           /\ e.v["rust_type"] # e.v["native_type"]

\* the named CXXMethodDecl children of a record and the named records
NamedMethodChildren(r) ==
    SelectSeq(ChildrenOfKind(r, K_CXXMethodDecl), LAMBDA c : IsNamedMethodNode(c))
NamedRecordsOf(tree) == {n \in NodesOf(tree) : IsNamedRecordNode(n)}

\* the function_checksum values of the named method children, in order
ChildFingerprints(r) ==
    [i \in DOMAIN NamedMethodChildren(r) |->
        NamedMethodChildren(r)[i].v["function_checksum"].v]

\* C16: the interface fingerprint pass starts only after the walker has
\* finished on the whole tree: the tree each pass leaves carries no
\* interface_checksum before the fifth pass, every named method carries
\* function_checksum from the walker on, and the interface_checksum of a named record is the fingerprint of
\* the canonical string that holds the function_checksum of each of its
\* direct named method children.
C16_InterfaceChecksumAfterFunctionChecksums ==
    /\ (ps_hist # <<>> /\ Len(ps_hist) <= 5) =>
           \A n \in NodesOf(ps_hist[Len(ps_hist)]) : ~Has(n, "interface_checksum")
    /\ Len(ps_hist) \in 3..6 =>
           \A n \in NodesOf(ps_hist[Len(ps_hist)]) :
               IsNamedMethodNode(n) => Has(n, "function_checksum")
    /\ Len(ps_hist) = 6 =>
           \A r \in NamedRecordsOf(TreeAfter(5)) :
               /\ Has(r, "interface_checksum")
               /\ r.v["interface_checksum"]
                      = JInt(Digest(InterfaceSignature(r.v["name"].v, ChildFingerprints(r))))
               /\ \A i \in DOMAIN ChildFingerprints(r) :
                      Contains(InterfaceSignature(r.v["name"].v, ChildFingerprints(r)),
                               DecimalStr(ChildFingerprints(r)[i]))

\* the fifth pass has run on an interface with two named methods and a
\* nested interface
C16_Witness ==
    /\ JustRan(5)
    /\ \E r \in NamedRecordsOf(TreeAfter(5)) :
           /\ Len(NamedMethodChildren(r)) = 2
           /\ Len(ChildrenOfKind(r, K_CXXRecordDecl)) = 1
           /\ Has(r, "interface_checksum")

RECURSIVE Extends(_, _)
\* after holds everything before holds: every record keeps its attributes
\* (and may have more), every list its length and its order, every other
\* value is the same
Extends(before, after) ==
    IF IsDict(before)
    THEN /\ IsDict(after)
         /\ DOMAIN before.v \subseteq DOMAIN after.v
         /\ \A key \in DOMAIN before.v : Extends(before.v[key], after.v[key])
    ELSE IF IsList(before)
    THEN /\ IsList(after)
         /\ Len(after.v) = Len(before.v)
         /\ \A i \in DOMAIN before.v : Extends(before.v[i], after.v[i])
    ELSE after = before

RECURSIVE WithoutFlags(_)
\* the value without the first and last attributes of its records
WithoutFlags(x) ==
    IF IsDict(x)
    THEN JDict([key \in DOMAIN x.v \ {"first", "last"} |-> WithoutFlags(x.v[key])])
    ELSE IF IsList(x)
    THEN JList([i \in DOMAIN x.v |-> WithoutFlags(x.v[i])])
    ELSE x

\* C17: no pass removes a node, changes the length or the order of a
\* children list, or removes or changes an attribute that the parser or an
\* earlier pass wrote: the tree a pass leaves extends the tree it was given;
\* and the ordering annotator writes only first and last.
C17_PassesOnlyAdd ==
    /\ Len(ps_hist) \in 2..6 =>
           Extends(ps_hist[Len(ps_hist) - 1], ps_hist[Len(ps_hist)])
    /\ Len(ps_hist) = 5 => WithoutFlags(ps_hist[5]) = ps_hist[4]

\* the five passes have run on a tree where each of them wrote something
C17_Witness ==
    /\ JustRan(5)
    /\ \E n \in NodesOf(TreeAfter(5)) : Has(n, "annotation")
    /\ \E m \in MethodNodesOf(TreeAfter(5)) :
           /\ Has(m, "wit_function_name")
           /\ Len(m.v["parameters"].v) >= 1
           /\ m.v["parameters"].v[1].v["first"] = JBool(TRUE)
    /\ \E r \in NamedRecordsOf(TreeAfter(5)) : Has(r, "interface_checksum")
    /\ TreeAfter(5) # TreeAfter(4) /\ TreeAfter(4) # TreeAfter(3)
    /\ TreeAfter(3) # TreeAfter(2) /\ TreeAfter(2) # TreeAfter(1)
    /\ TreeAfter(1) # ps_hist[1]

\* range.begin of a node and the expansion location it names (an empty
\* record when it names none)
BeginOf(n) == Get(Get(n, "range", JDict(<<>>)), "begin", JDict(<<>>))
ExpansionOf(n) == Get(BeginOf(n), "expansionLoc", JDict(<<>>))

\* the location is a usable coordinate: it has a line, a column and a file
IsUsable(loc) == Has(loc, "line") /\ Has(loc, "col") /\ Has(loc, "file")

\* the location is usable, in the processed file, on a line with a marker
IsMarked(loc) ==
    /\ IsUsable(loc)
    /\ NormPath(loc.v["file"].v) = NormPath(ps_args.source_file)
    /\ extract_annotation_text(ps_args.source_lines, loc.v["line"]) # JNull

AnnotateAttrsOf(tree) == {n \in NodesOf(tree) : KindIs(n, K_AnnotateAttr)}

\* C18 (as stated): the direct location of range.begin is used whenever the
\* expansion location yields no usable (line, column, file) coordinate, so
\* an AnnotateAttr node with a complete direct location in the processed
\* file and a marker on that line gets its annotation.
C18_DirectLocationWhenExpansionUnusable ==
    JustRan(1) =>
        \A n \in AnnotateAttrsOf(TreeAfter(1)) :
            (~IsUsable(ExpansionOf(n)) /\ IsMarked(BeginOf(n))) => Has(n, "annotation")

\* C18 (amended): the direct location of range.begin is used only when the
\* node names no expansion location (none, or an empty one); an expansion
\* location that is there is the one used, also when it lacks a line, a
\* column or a file, and then the node gets no annotation whatever its
\* direct location is.
C18_DirectLocationOnlyWithoutExpansion ==
    JustRan(1) =>
        \A n \in AnnotateAttrsOf(TreeAfter(1)) :
            Has(n, "annotation") <=>
                IF DOMAIN ExpansionOf(n).v = {} THEN IsMarked(BeginOf(n))
                ELSE IsMarked(ExpansionOf(n))

\* the resolver has run on a node without expansion location that it
\* annotated from its direct location, and on a node with an incomplete
\* expansion location and a complete direct one that it left alone
C18_Witness ==
    /\ JustRan(1)
    /\ \E n \in AnnotateAttrsOf(TreeAfter(1)) :
           ~Has(BeginOf(n), "expansionLoc") /\ Has(n, "annotation")
    /\ \E n \in AnnotateAttrsOf(TreeAfter(1)) :
           /\ DOMAIN ExpansionOf(n).v # {} /\ ~IsUsable(ExpansionOf(n))
           /\ IsMarked(BeginOf(n))
           /\ ~Has(n, "annotation")

\* the walker has just run with both arguments given
WalkerRanWithArguments ==
    JustRan(2) /\ ps_args.root_namespace # <<>> /\ ps_args.package_name # <<>>

\* the record carries qualified as its fully qualified name and the name
\* hash of qualified as interface_name_hash and interface_id
IsQualifiedAs(r, qualified) ==
    /\ Has(r, "full_qualified_name") /\ r.v["full_qualified_name"] = JStr(qualified)
    /\ Has(r, "interface_name_hash")
    /\ r.v["interface_name_hash"] = JInt(calculate_name_hash(qualified))
    /\ Has(r, "interface_id")
    /\ r.v["interface_id"] = JInt(calculate_name_hash(qualified))

\* the method carries the name hash of qualified, '::' and its local name
IsHashedUnder(m, qualified) ==
    /\ Has(m, "function_name_hash")
    /\ m.v["function_name_hash"]
           = JInt(calculate_name_hash(qualified \o S_ColonColon \o m.v["name"].v))

\* C20 (as stated): on a named CXXRecordDecl node the fully qualified name is
\* exactly root-namespace, '::' and the local name; interface_name_hash and
\* interface_id are the name hash of that string, and a method's
\* function_name_hash is the name hash of that string, '::' and the method's
\* local name.
C20_QualifiedNameIsRootAndName ==
    WalkerRanWithArguments =>
        /\ \A r \in NamedRecordsOf(TreeAfter(2)) :
               IsQualifiedAs(r, ps_args.root_namespace \o S_ColonColon \o r.v["name"].v)
        /\ \A p \in OwnedMethods(TreeAfter(2)) :
               IsHashedUnder(p.method,
                   ps_args.root_namespace \o S_ColonColon \o p.owner.v["name"].v)

\* C20 (amended): the fully qualified name starts with '::': it is '::',
\* root-namespace, '::' and the local name; interface_name_hash and
\* interface_id are the name hash of that string, and a method's
\* function_name_hash and function_id are the name hash of that string, '::'
\* and the method's local name.
C20_QualifiedNameIsRootedRootAndName ==
    WalkerRanWithArguments =>
        /\ \A r \in NamedRecordsOf(TreeAfter(2)) :
               IsQualifiedAs(r, S_ColonColon \o ps_args.root_namespace
                                    \o S_ColonColon \o r.v["name"].v)
        /\ \A p \in OwnedMethods(TreeAfter(2)) :
               /\ IsHashedUnder(p.method,
                      S_ColonColon \o ps_args.root_namespace
                          \o S_ColonColon \o p.owner.v["name"].v)
               /\ Has(p.method, "function_id")
               /\ p.method.v["function_id"] = p.method.v["function_name_hash"]

\* the walker has run on an interface with a method and a nested interface
\* with a method of its own
C20_Witness ==
    /\ WalkerRanWithArguments
    /\ \E p \in OwnedMethods(TreeAfter(2)) : \E q \in OwnedMethods(TreeAfter(2)) :
           /\ p.owner # q.owner
           /\ Has(p.owner, "full_qualified_name")
           /\ StartsWith(p.owner.v["full_qualified_name"].v, S_ColonColon)
           /\ Has(p.method, "function_name_hash")
           /\ Has(q.method, "function_name_hash")

\* the positions of a line where a METADATA(...) marker starts
MarkerPositions(line_content) ==
    {p \in DOMAIN line_content : MetadataAt(line_content, p) # <<>>}

\* the text of the line an AnnotateAttr node resolves to
ResolvedLineOf(n) == ps_args.source_lines.v[WrittenAt(n).v["line"].v].v

\* the node resolves to a line of the processed file
ResolvesToLine(n) ==
    /\ KindIs(n, K_AnnotateAttr)
    /\ InProcessedFile(WrittenAt(n))
    /\ WrittenAt(n).v["line"].v \in DOMAIN ps_args.source_lines.v

RECURSIVE RecordsIn(_)
\* the records of a value at any depth, through attributes and list elements
RecordsIn(x) ==
    IF IsDict(x)
    THEN {[ty |-> "dict", v |-> x.v]} \cup UNION {RecordsIn(x.v[key]) : key \in DOMAIN x.v}
    ELSE IF IsList(x) THEN UNION {RecordsIn(x.v[i]) : i \in DOMAIN x.v}
    ELSE {}

\* the record elements of the list-valued attributes of a record
ListElementsOf(d) ==
    UNION {{d.v[key].v[i] : i \in {j \in DOMAIN d.v[key].v : IsDict(d.v[key].v[j])}}
           : key \in {k \in DOMAIN d.v : IsList(d.v[k])}}

HasBothFlags(e) ==
    /\ Has(e, "first") /\ e.v["first"].ty = "bool"
    /\ Has(e, "last") /\ e.v["last"].ty = "bool"

\* C23: in the assembled document every record element of every list-valued
\* attribute, at any depth, carries a boolean first and a boolean last; so do
\* the elements of the parameters list that the signature extractor creates on
\* each method.
C23_EveryListElementIsFlagged ==
    Assembled =>
        \A d \in RecordsIn(Document) : \A e \in ListElementsOf(d) : HasBothFlags(e)

\* the document is assembled and holds a method whose parameters list, made
\* by the signature extractor, has two flagged elements
C23_Witness ==
    /\ Assembled
    /\ \E d \in RecordsIn(Document) :
           /\ KindIs(d, K_CXXMethodDecl)
           /\ Has(d, "parameters") /\ IsList(d.v["parameters"])
           /\ Len(d.v["parameters"].v) = 2
           /\ d.v["parameters"].v[1].v["first"] = JBool(TRUE)
           /\ d.v["parameters"].v[1].v["last"] = JBool(FALSE)
           /\ d.v["parameters"].v[2].v["last"] = JBool(TRUE)

\* the attributes a method takes from the interface that encloses it
InterfaceDerivedKeys ==
    { "witgen_cxx_function_fullname", "witgen_csharp_function_fullname",
      "witgen_rust_function_fullname", "wasm_cxx_function_fullname",
      "wasm_csharp_function_fullname", "wasm_rust_function_fullname",
      "wit_interface_fullname", "cxx_namespace", "function_name_hash",
      "function_id" }

\* the named methods of the tree that no named CXXRecordDecl encloses
UnownedMethods(tree) ==
    {p.method : p \in {q \in MethodsUnder(tree, NoValue) : q.owner = NoValue}}

\* C25: right after the walker, a named CXXMethodDecl node that is not below
\* any named CXXRecordDecl has none of the interface-derived attributes (the
\* per-target function fullnames, wit_interface_fullname, cxx_namespace,
\* function_name_hash, function_id), also when an interface was walked before
\* it in the same list.
C25_NoInterfaceContextOutsideInterfaces ==
    JustRan(2) =>
        \A m \in UnownedMethods(TreeAfter(2)) :
            DOMAIN m.v \cap InterfaceDerivedKeys = {}

\* the walker has run, with both arguments given, on a list that holds a
\* named interface and, after it, a method outside every interface; the
\* walker named the interface and the method
C25_Witness ==
    /\ JustRan(2)
    /\ ~KindIs(TreeAfter(2), K_CXXRecordDecl)
    /\ Has(TreeAfter(2), "inner")
    /\ \E i \in DOMAIN TreeAfter(2).v["inner"].v :
       \E j \in DOMAIN TreeAfter(2).v["inner"].v :
           /\ i < j
           /\ IsNamedRecordNode(TreeAfter(2).v["inner"].v[i])
           /\ Has(TreeAfter(2).v["inner"].v[i], "full_qualified_name")
           /\ Has(TreeAfter(2).v["inner"].v[i], "wit_interface_fullname")
           /\ IsNamedMethodNode(TreeAfter(2).v["inner"].v[j])
           /\ Has(TreeAfter(2).v["inner"].v[j], "wit_function_name")
           /\ ~Has(TreeAfter(2).v["inner"].v[j], "function_name_hash")

\* the (native_type, name) pairs of the parameters list of a method
DescriptorPairs(m) ==
    [i \in DOMAIN m.v["parameters"].v |->
        <<m.v["parameters"].v[i].v["native_type"], m.v["parameters"].v[i].v["name"]>>]

\* the named CXXMethodDecl nodes of the document
DocumentMethods == {d \in RecordsIn(Document) : IsNamedMethodNode(d)}

\* the function_checksum of the method is the checksum of its name and of
\* the pairs of its parameters list
ChecksumIsOfDescriptors(m) ==
    /\ Has(m, "function_checksum") /\ Has(m, "parameters")
    /\ m.v["function_checksum"]
           = JInt(calculate_function_checksum(m.v["name"].v, DescriptorPairs(m)))

\* every ParmVarDecl child of the method has a record as its type, or none
HasOnlyRecordTypedParms(m) ==
    \A i \in DOMAIN m.v["inner"].v :
        (IsDict(m.v["inner"].v[i]) /\ KindIs(m.v["inner"].v[i], K_ParmVarDecl)
            /\ Has(m.v["inner"].v[i], "type"))
        => IsDict(m.v["inner"].v[i].v["type"])

\* C26: for every named CXXMethodDecl node of the final document, the ordered
\* (type, name) pairs hashed into its function_checksum are exactly the
\* (native_type, name) pairs of its parameters list in the same order, also
\* for ParmVarDecl children whose type is missing or is not a record.
C26_ChecksumPairsAreDescriptorPairs ==
    Assembled => \A m \in DocumentMethods : ChecksumIsOfDescriptors(m)

\* the same, for the methods whose ParmVarDecl children have a record as
\* their type or no type at all
ChecksumPairsAreDescriptorPairsOfRecordTyped ==
    Assembled =>
        \A m \in DocumentMethods :
            HasOnlyRecordTypedParms(m) => ChecksumIsOfDescriptors(m)

====
